---- MODULE Spec2Model ----
(***************************************************************************)
(* Agent tool-execution and change-safety mediation layer of the           *)
(* repository's maintenance agents (scripts/agents): the wrapped execute   *)
(* of BaseAgent.runAgentLoop, the step-bounded generateText loop, the      *)
(* agents' execute, the file tools and SafetyChecker.                      *)
(*                                                                         *)
(* Text is modelled as a sequence of tokens.  A token is a piece of text   *)
(* that the regular expressions of the source can only match as a whole    *)
(* (a pattern literal such as eval, a single character such as a quote);   *)
(* Wt gives the number of characters a token stands for.                   *)
(***************************************************************************)
EXTENDS Integers, Sequences, FiniteSets, TLC

VARIABLES
  agent,            \* the concrete agent whose execute runs
  ctxValid,         \* whether validate(input, context) finds no error
  maxSteps,         \* BaseAgent.maxSteps, the step budget of the run
  fs,               \* files under workingDir: path -> content, or Absent
  fs0,              \* history: fs when execute was called
  loopState,        \* position of execute / runAgentLoop / generateText
  stepCount,        \* steps generateText has completed
  modelCalls,       \* requests made to the model
  modelThrew,       \* history: the model call threw
  inv,              \* history: invocations of wrapped execute, in invocation order
  toolCalls,        \* runAgentLoop's toolCalls
  proposedChanges,  \* runAgentLoop's proposedChanges
  agentResult,      \* what execute returned
  scInput,          \* input of the SafetyChecker function under check
  scResult,         \* its verdict
  client            \* the JiraClient and the requests made through it

loopVars == <<agent, ctxValid, maxSteps, fs, fs0, loopState, stepCount, modelCalls,
              modelThrew, inv, toolCalls, proposedChanges, agentResult>>
scVars == <<scInput, scResult>>
vars == <<loopVars, scVars, client>>

(***************************************************************************)
(* Bounds of the model.                                                    *)
(***************************************************************************)
MaxStepBudget == 2
MaxCallsPerStep == 2
MaxInvocations == 3
MaxFrags == 2
MaxChanges == 2
MaxBracketLen == 4
MaxRatioLen == 3
MaxLogLen == 3
MaxRequests == 3

\* A value that is absent (undefined): records only, so that it compares with results.
Undefined == [undefined |-> TRUE]

Min(a, b) == IF a < b THEN a ELSE b

(***************************************************************************)
(* Tokens.                                                                 *)
(***************************************************************************)
SP == "SP"
NL == "NL"
TAB == "TAB"
DQ == "DQ"
SQ == "SQ"
BT == "BT"
BS == "BS"

WS == {SP, NL, TAB}
Quote == {SQ, DQ}

\* Characters and pattern literals that occur in content.
ContentTokens ==
  {SP, NL, TAB, DQ, SQ, BT, BS, "n", "t", "(", "=", ":", "+", "x",
   "eval", "new", "Function", "child_process.exec", "../../..", "/etc/passwd",
   "/etc/shadow", "password", "api_key", "apikey", "api-key", "secret",
   "private_key", "privatekey", "private-key", "-----BEGIN", "0.0.0.0", "listen",
   "SELECT", "select", "INSERT", "UPDATE", "DELETE", "${", "innerHTML", "req",
   "user", "input", "param", "dangerouslySetInnerHTML", "abcdefgh",
   "abcdefghijklmnop"}

\* Path segments, and the punctuation and keys of a serialized args object.
PathTokens ==
  {"/", "a.ts", "src", ".env", ".env.local", ".env.production", ".env.development",
   "credentials.json", "secrets.json", "service-account.json", ".git", "config",
   ".npmrc", ".yarnrc", ".ssh", ".aws", ".gcloud", "id_rsa", "secrets", "Secret",
   "mysecrets", "credentials", "Credential", "private_keys", "PrivateKey",
   "package.json"}

JsonTokens == {"{", "}", ",", "path", "filePath", "content", "description", "comment"}

\* Words that hold one occurrence of a keyword of checkSecurityRegression.
SecurityTokens ==
  {"validate", "Validate", "sanitize", "escape", "authenticate", "authorize", "csrf",
   "CSRF", "xss", "helmet", "rateLimit"}

\* Characters, words and path segments that ChangeValidator distinguishes.
ValidatorTokens ==
  {")", "[", "]", "*", "console.log", "DEBUG", "TODO", "todo", "x100000", "1", "true",
   ".", "..", "tsconfig.json", "README.md", "ci.yml", "a.test.ts", "A.TS", "a.json"}

\* Words of an issue title or body.
IssueTokens ==
  {"bypass", "Bypass", "auth", "authentication", "disable", "security",
   "remove", "validation", "add", "backdoor", "expose", "skip", "check",
   "hardcode", "ignore", "ssl", "SSL", "error", "bug", "crash", "exception",
   "fix", "broken", "doesn't", "doesnt", "work", "fails", "undefined", "null",
   "nan", "NaN", "line", ".ts", ".js", "function", "return", "import",
   "important", "export", "the", "logo"}

ReviewTokens == {"Bug", "critical", "LGTM"}

Tokens ==
  ContentTokens \cup PathTokens \cup JsonTokens \cup SecurityTokens \cup ValidatorTokens
    \cup IssueTokens \cup ReviewTokens

\* Number of characters of a token.
Wt(t) ==
  CASE t \in {SP, NL, TAB, DQ, SQ, BT, BS, "n", "t", "(", "=", ":", "+", "x",
              "/", "{", "}", ",", ")", "[", "]", "*", "1", "."} -> 1
    [] t \in {"${", ".."} -> 2
    [] t \in {"new", "req", "src", "xss"} -> 3
    [] t \in {"eval", "user", "a.ts", ".env", ".git", ".ssh", ".aws", "path",
              "csrf", "CSRF", "TODO", "todo", "true", "A.TS"} -> 4
    [] t \in {"input", "param", "DEBUG"} -> 5
    [] t \in {"listen", "SELECT", "select", "INSERT", "UPDATE", "DELETE", "secret",
              "apikey", "config", ".npmrc", "id_rsa", "Secret", "escape", "helmet",
              "ci.yml", "a.json"} -> 6
    [] t \in {"api_key", "api-key", "0.0.0.0", ".yarnrc", ".gcloud", "secrets",
              "content", "comment"} -> 7
    [] t \in {"Function", "password", "../../..", "abcdefgh", "filePath", "validate",
              "Validate", "sanitize"} -> 8
    [] t \in {"innerHTML", "mysecrets", "authorize", "rateLimit", "README.md",
              "a.test.ts"} -> 9
    [] t \in {"-----BEGIN", "privatekey", ".env.local", "Credential",
              "PrivateKey"} -> 10
    [] t \in {"/etc/passwd", "/etc/shadow", "private_key", "private-key",
              "credentials", "description", "console.log"} -> 11
    [] t \in {"secrets.json", "private_keys", "package.json", "authenticate"} -> 12
    [] t \in {"tsconfig.json"} -> 13
    [] t \in {".env.production"} -> 15
    [] t \in {"abcdefghijklmnop", "credentials.json", ".env.development"} -> 16
    [] t \in {"child_process.exec"} -> 18
    [] t \in {"service-account.json"} -> 20
    [] t \in {"dangerouslySetInnerHTML"} -> 23
    [] t \in {"x100000"} -> 100000
    [] t \in {"add", "ssl", "SSL", "bug", "fix", "nan", "NaN", ".ts", ".js", "the"} -> 3
    [] t \in {"auth", "skip", "work", "null", "line", "logo"} -> 4
    [] t \in {"check", "error", "crash", "fails"} -> 5
    [] t \in {"bypass", "Bypass", "remove", "expose", "ignore", "broken", "doesnt", "return", "import", "export"} -> 6
    [] t \in {"disable", "doesn't"} -> 7
    [] t \in {"security", "backdoor", "hardcode", "function"} -> 8
    [] t \in {"exception", "undefined", "important"} -> 9
    [] t \in {"validation"} -> 10
    [] t \in {"authentication"} -> 14
    [] t \in {"Bug"} -> 3
    [] t \in {"LGTM"} -> 4
    [] t \in {"critical"} -> 8

(***************************************************************************)
(* Regular expressions: a pattern is a sequence of items, each a character *)
(* class repeated between min and max times (unb: no upper limit) over at  *)
(* least wt characters.                                                    *)
(***************************************************************************)
Lit(t) == [cls |-> {t}, min |-> 1, max |-> 1, unb |-> FALSE, wt |-> 0]
One(c) == [cls |-> c, min |-> 1, max |-> 1, unb |-> FALSE, wt |-> 0]
Star(c) == [cls |-> c, min |-> 0, max |-> 0, unb |-> TRUE, wt |-> 0]
Plus(c) == [cls |-> c, min |-> 1, max |-> 0, unb |-> TRUE, wt |-> 0]
AtLeast(c, n) == [cls |-> c, min |-> 0, max |-> 0, unb |-> TRUE, wt |-> n]

Dot == Tokens \ {NL}
NotQuote == Tokens \ Quote

RECURSIVE SumWt(_, _, _)
SumWt(s, pos, n) == IF n = 0 THEN 0 ELSE Wt(s[pos]) + SumWt(s, pos + 1, n - 1)

RECURSIVE MatchAt(_, _, _, _)
MatchAt(pat, k, s, pos) ==
  IF k > Len(pat) THEN TRUE
  ELSE LET left == Len(s) - pos + 1
           most == IF pat[k].unb THEN left ELSE Min(pat[k].max, left)
       IN \E n \in pat[k].min .. most :
             /\ \A j \in pos .. (pos + n - 1) : s[j] \in pat[k].cls
             /\ SumWt(s, pos, n) >= pat[k].wt
             /\ MatchAt(pat, k + 1, s, pos + n)

\* RegExp.prototype.test of an unanchored pattern.
Test(pat, s) == \E pos \in 1 .. (Len(s) + 1) : MatchAt(pat, 1, s, pos)

\* RegExp.prototype.test of a pattern that starts with ^.
TestAnchored(pat, s) == MatchAt(pat, 1, s, 1)

(***************************************************************************)
(* HARMFUL_PATTERNS, in list order.                                        *)
(***************************************************************************)
SqlWords == {"SELECT", "select", "INSERT", "UPDATE", "DELETE"}

HARMFUL_PATTERNS ==
  << [pattern |-> <<Lit("eval"), Star(WS), Lit("(")>>,
      description |-> "eval() can execute arbitrary code", severity |-> "critical"],
     [pattern |-> <<Lit("new"), Plus(WS), Lit("Function"), Star(WS), Lit("(")>>,
      description |-> "new Function() can execute arbitrary code", severity |-> "critical"],
     [pattern |-> <<Lit("child_process.exec"), Star(WS), Lit("(")>>,
      description |-> "exec() with unsanitized input", severity |-> "error"],
     [pattern |-> <<Lit("../../..")>>,
      description |-> "Path traversal attack pattern", severity |-> "critical"],
     [pattern |-> <<Lit("/etc/passwd")>>,
      description |-> "Sensitive system file access", severity |-> "critical"],
     [pattern |-> <<Lit("/etc/shadow")>>,
      description |-> "Sensitive system file access", severity |-> "critical"],
     [pattern |-> <<Lit("password"), Star(WS), One({":", "="}), Star(WS), One(Quote),
                    AtLeast(NotQuote, 8), One(Quote)>>,
      description |-> "Hardcoded password detected", severity |-> "critical"],
     [pattern |-> <<One({"api_key", "apikey", "api-key"}), Star(WS), One({":", "="}),
                    Star(WS), One(Quote), AtLeast(NotQuote, 16), One(Quote)>>,
      description |-> "Hardcoded API key detected", severity |-> "critical"],
     [pattern |-> <<Lit("secret"), Star(WS), One({":", "="}), Star(WS), One(Quote),
                    AtLeast(NotQuote, 16), One(Quote)>>,
      description |-> "Hardcoded secret detected", severity |-> "critical"],
     [pattern |-> <<One({"private_key", "privatekey", "private-key"}), Star(WS),
                    One({":", "="}), Star(WS), One(Quote), Lit("-----BEGIN")>>,
      description |-> "Private key in code", severity |-> "critical"],
     [pattern |-> <<Lit("0.0.0.0"), Star(Dot), Lit("listen")>>,
      description |-> "Listening on all interfaces", severity |-> "warning"],
     [pattern |-> <<Lit(BT), Star(WS), Lit("SELECT"), Star(Dot), Lit("${")>>,
      description |-> "Potential SQL injection in template literal", severity |-> "error"],
     [pattern |-> <<Lit(SQ), Star(WS), Lit("+"), Star(WS), Star(Dot), Lit("+"), Star(WS),
                    Lit(SQ), Star(Dot), One(SqlWords)>>,
      description |-> "Potential SQL injection via concatenation", severity |-> "error"],
     [pattern |-> <<Lit("innerHTML"), Star(WS), Lit("="), Star(WS), Plus(NotQuote),
                    One({"req", "user", "input", "param"})>>,
      description |-> "Potential XSS via innerHTML", severity |-> "error"],
     [pattern |-> <<Lit("dangerouslySetInnerHTML")>>,
      description |-> "Using dangerouslySetInnerHTML", severity |-> "warning"] >>

\* The indices of the harmful patterns that match s, and the first of them.
HarmfulMatches(s) == {i \in 1 .. Len(HARMFUL_PATTERNS) : Test(HARMFUL_PATTERNS[i].pattern, s)}
FirstOf(S) == CHOOSE i \in S : \A j \in S : i <= j

(***************************************************************************)
(* JSON.stringify of an args object: the keys in insertion order, every    *)
(* string value quoted and escaped.                                        *)
(***************************************************************************)
EscapeToken(t) ==
  CASE t = DQ -> <<BS, DQ>>
    [] t = BS -> <<BS, BS>>
    [] t = NL -> <<BS, "n">>
    [] t = TAB -> <<BS, "t">>
    [] OTHER -> <<t>>

RECURSIVE Escape(_)
Escape(s) == IF s = <<>> THEN <<>> ELSE EscapeToken(Head(s)) \o Escape(Tail(s))

JsonString(s) == <<DQ>> \o Escape(s) \o <<DQ>>

KeyOrder == <<"path", "filePath", "content", "description", "comment">>

RECURSIVE JsonMembers(_, _, _)
JsonMembers(args, k, first) ==
  IF k > Len(KeyOrder) THEN <<>>
  ELSE IF KeyOrder[k] \in DOMAIN args
       THEN (IF first THEN <<>> ELSE <<",">>)
              \o <<DQ, KeyOrder[k], DQ, ":">> \o JsonString(args[KeyOrder[k]])
              \o JsonMembers(args, k + 1, FALSE)
       ELSE JsonMembers(args, k + 1, first)

JSONStringify(args) == <<"{">> \o JsonMembers(args, 1, TRUE) \o <<"}">>

(***************************************************************************)
(* SafetyChecker.                                                          *)
(***************************************************************************)
PROTECTED_FILES ==
  << <<".env">>, <<".env.local">>, <<".env.production">>, <<".env.development">>,
     <<"credentials.json">>, <<"secrets.json">>, <<"service-account.json">>,
     <<".git", "/", "config">>, <<".npmrc">>, <<".yarnrc">> >>

PROTECTED_PATH_PATTERNS ==
  << [anchored |-> TRUE, pattern |-> <<Lit(".ssh"), Lit("/")>>],
     [anchored |-> TRUE, pattern |-> <<Lit(".aws"), Lit("/")>>],
     [anchored |-> TRUE, pattern |-> <<Lit(".gcloud"), Lit("/")>>],
     [anchored |-> FALSE,
      pattern |-> <<One({"secret", "secrets", "Secret", "mysecrets"}), Lit("/")>>],
     [anchored |-> FALSE, pattern |-> <<One({"credentials", "Credential"}), Lit("/")>>],
     [anchored |-> FALSE,
      pattern |-> <<One({"private_key", "privatekey", "private-key", "private_keys",
                         "PrivateKey"}), Lit("/")>>] >>

SENSITIVE_TOOLS ==
  {"writeFile", "gitCommit", "gitPush", "createPullRequest", "npmAuditFix", "npmUpdate"}

EndsWith(s, suf) ==
  /\ Len(suf) <= Len(s)
  /\ SubSeq(s, Len(s) - Len(suf) + 1, Len(s)) = suf

Safe == [safe |-> TRUE]

checkProtectedFile(filePath) ==
  IF \E i \in 1 .. Len(PROTECTED_FILES) :
        \/ filePath = PROTECTED_FILES[i]
        \/ EndsWith(filePath, <<"/">> \o PROTECTED_FILES[i])
  THEN [safe |-> FALSE, reason |-> <<"Cannot modify protected file: ">> \o filePath,
        severity |-> "critical"]
  ELSE IF \E i \in 1 .. Len(PROTECTED_PATH_PATTERNS) :
             IF PROTECTED_PATH_PATTERNS[i].anchored
             THEN TestAnchored(PROTECTED_PATH_PATTERNS[i].pattern, filePath)
             ELSE Test(PROTECTED_PATH_PATTERNS[i].pattern, filePath)
  THEN [safe |-> FALSE,
        reason |-> <<"Cannot modify files in protected path: ">> \o filePath,
        severity |-> "critical"]
  ELSE Safe

\* A value is truthy when it is present and not the empty string.
Truthy(args, key) == key \in DOMAIN args /\ args[key] # <<>>

\* args.path || args.filePath
PathArg(args) ==
  IF Truthy(args, "path") THEN args.path
  ELSE IF "filePath" \in DOMAIN args THEN args.filePath
  ELSE <<>>

checkToolCall(toolName, args) ==
  IF toolName \in SENSITIVE_TOOLS
  THEN LET argsStr == JSONStringify(args)
           hits == HarmfulMatches(argsStr)
       IN IF hits # {}
          THEN [safe |-> FALSE,
                reason |-> <<HARMFUL_PATTERNS[FirstOf(hits)].description,
                             " detected in tool arguments">>,
                severity |-> HARMFUL_PATTERNS[FirstOf(hits)].severity]
          ELSE IF PathArg(args) # <<>>
               THEN checkProtectedFile(PathArg(args))
               ELSE Safe
  ELSE Safe

\* A field of a change is taken when it is present and not the empty string.
HasContent(change, key) == key \in DOMAIN change /\ change[key] # <<>>

\* securityPatterns of checkSecurityRegression, in list order: the words that hold
\* the keyword in some letter case, and the name reported.
SecurityPatterns ==
  << [words |-> {"validate", "Validate"}, name |-> "validation"],
     [words |-> {"sanitize"}, name |-> "sanitization"],
     [words |-> {"escape"}, name |-> "escaping"],
     [words |-> {"authenticate"}, name |-> "authentication"],
     [words |-> {"authorize"}, name |-> "authorization"],
     [words |-> {"csrf", "CSRF"}, name |-> "CSRF protection"],
     [words |-> {"xss"}, name |-> "XSS protection"],
     [words |-> {"helmet"}, name |-> "security headers"],
     [words |-> {"rateLimit"}, name |-> "rate limiting"] >>

\* (text.match(pattern) || []).length
MatchCount(words, text) == Cardinality({i \in 1 .. Len(text) : text[i] \in words})

\* Mutation of Regressed: only a keyword that disappears is reported.
Regressed_Removed(k, original, modified) ==
  /\ MatchCount(SecurityPatterns[k].words, original) > 0
  /\ MatchCount(SecurityPatterns[k].words, modified) = 0

\* originalMatches > 0 && modifiedMatches < originalMatches
Regressed(k, original, modified) ==
  /\ MatchCount(SecurityPatterns[k].words, original) > 0
  /\ MatchCount(SecurityPatterns[k].words, modified)
       < MatchCount(SecurityPatterns[k].words, original)

checkSecurityRegression(original, modified) ==
  LET found == {k \in 1 .. Len(SecurityPatterns) : Regressed(k, original, modified)}
  IN IF found # {}
     THEN [safe |-> FALSE,
           reason |-> <<"Potential security regression: ",
                        SecurityPatterns[FirstOf(found)].name,
                        " code was reduced or removed">>,
           severity |-> "warning"]
     ELSE Safe

\* The verdict of the harmful-content loop of checkChange on newContent.
HarmfulContent(content) ==
  LET hits == HarmfulMatches(content)
  IN IF hits # {}
     THEN [safe |-> FALSE,
           reason |-> <<HARMFUL_PATTERNS[FirstOf(hits)].description,
                        " in proposed change">>,
           severity |-> HARMFUL_PATTERNS[FirstOf(hits)].severity]
     ELSE Safe

\* The regression branch of checkChange.
RegressionCheck(change) ==
  IF /\ change.changeType = "modify"
     /\ HasContent(change, "originalContent")
     /\ HasContent(change, "newContent")
  THEN checkSecurityRegression(change.originalContent, change.newContent)
  ELSE Safe

\* Mutation of checkChange: the content is tested before the path.
checkChange_ContentFirst(change) ==
  IF HasContent(change, "newContent") /\ ~HarmfulContent(change.newContent).safe
  THEN HarmfulContent(change.newContent)
  ELSE IF ~checkProtectedFile(change.filePath).safe
  THEN checkProtectedFile(change.filePath)
  ELSE RegressionCheck(change)

checkChange(change) ==
  IF ~checkProtectedFile(change.filePath).safe
  THEN checkProtectedFile(change.filePath)
  ELSE IF HasContent(change, "newContent") /\ ~HarmfulContent(change.newContent).safe
  THEN HarmfulContent(change.newContent)
  ELSE RegressionCheck(change)

\* The registered capabilities that change the working tree, the git repository or
\* remote issue and pull request state.
GitMutatingTools == {"createBranch", "gitAdd", "gitCommit", "gitPush"}
NpmMutatingTools == {"npmAuditFix", "npmUpdate", "npmInstall"}
GitHubMutatingTools ==
  {"commentOnIssue", "createPullRequest", "createReview", "addLabel", "closeIssue"}
MutatingTools == GitMutatingTools \cup NpmMutatingTools \cup GitHubMutatingTools

(***************************************************************************)
(* File tools (createFileTools) and a capability of a registry supplied by *)
(* another BaseAgent subclass (customTool), whose execute may throw.       *)
(***************************************************************************)
FsPaths == {<<"a.ts">>, <<"src", "/", "a.ts">>, <<".env">>}
NoFile == [exists |-> FALSE]
File(content) == [exists |-> TRUE, content |-> content]

\* Mutation of writeFileFs: the tool writes the content to disk.
writeFileFs_Writes(args, f) == [f EXCEPT ![args.path] = File(args.content)]

\* writeFile's effect on the files under workingDir: it only calls access and readFile.
writeFileFs(args, f) == f

writeFileExecute(args, f) ==
  LET found == f[args.path].exists
      changeType == IF found THEN "modify" ELSE "create"
      base == [filePath |-> args.path, changeType |-> changeType,
               newContent |-> args.content, description |-> args.description,
               riskLevel |-> "medium"]
      proposedChange ==
        IF found
        THEN [filePath |-> args.path, changeType |-> changeType,
              originalContent |-> f[args.path].content,
              newContent |-> args.content, description |-> args.description,
              riskLevel |-> "medium"]
        ELSE base
  IN [success |-> TRUE, message |-> <<"Proposed ", changeType, " for ">> \o args.path,
      proposedChange |-> proposedChange]

readFileExecute(args, f) ==
  IF f[args.path].exists
  THEN [success |-> TRUE, content |-> f[args.path].content, path |-> args.path]
  ELSE [success |-> FALSE, error |-> <<"Failed to read file: ">>, path |-> args.path]

\* What tool.execute(args) returns.
ToolExecute(name, args, f) ==
  CASE name = "writeFile" -> writeFileExecute(args, f)
    [] name = "readFile" -> readFileExecute(args, f)
    [] OTHER -> [success |-> TRUE]

\* Whether tool.execute can throw: every tool of the repository catches its errors.
ToolMayThrow(name) == name = "customTool"

ToolFs(name, args, f) == IF name = "writeFile" THEN writeFileFs(args, f) ELSE f

\* The calls the model requests: a write to an existing file and a write to a new
\* file that pass the safety check, a write of harmful content, a read, and a call
\* of a capability that may throw.
ModelCalls ==
  { [name |-> "writeFile",
     args |-> [path |-> <<"a.ts">>, content |-> <<"x", "x">>, description |-> <<"x">>]],
    [name |-> "writeFile",
     args |-> [path |-> <<"src", "/", "a.ts">>, content |-> <<"x">>,
               description |-> <<"x">>]],
    [name |-> "writeFile",
     args |-> [path |-> <<"a.ts">>, content |-> <<"eval", "(">>, description |-> <<"x">>]],
    [name |-> "readFile", args |-> [path |-> <<"a.ts">>]],
    [name |-> "customTool", args |-> [path |-> <<"a.ts">>]] }

CallSeqs(n) == UNION {[1 .. k -> ModelCalls] : k \in 0 .. n}

\* The tool calls the model may request in one step.
StepCalls == CallSeqs(MaxCallsPerStep)

\* String.prototype.toLowerCase
LowerToken(t) ==
  CASE t = "Bypass" -> "bypass"
    [] t = "SSL" -> "ssl"
    [] t = "NaN" -> "nan"
    [] t = "CSRF" -> "csrf"
    [] t = "Validate" -> "validate"
    [] t = "TODO" -> "todo"
    [] t = "DEBUG" -> "debug"
    [] t = "A.TS" -> "a.ts"
    [] OTHER -> t

toLowerCase(text) == [i \in 1 .. Len(text) |-> LowerToken(text[i])]

\* The lower-case words that hold "auth".
AuthWords == {"auth", "authentication", "authenticate", "authorize"}

\* harmfulRequestPatterns of validateIssueForAutoFix, in list order.
HarmfulRequestPatterns ==
  << [pattern |-> <<Lit("bypass"), Star(Dot), One(AuthWords)>>,
      description |-> "Request to bypass authentication"],
     [pattern |-> <<Lit("disable"), Star(Dot), Lit("security")>>,
      description |-> "Request to disable security"],
     [pattern |-> <<Lit("remove"), Star(Dot), Lit("validation")>>,
      description |-> "Request to remove validation"],
     [pattern |-> <<Lit("add"), Star(Dot), Lit("backdoor")>>,
      description |-> "Request to add backdoor"],
     [pattern |-> <<Lit("expose"), Star(Dot), One({"secret", "secrets"})>>,
      description |-> "Request to expose secrets"],
     [pattern |-> <<Lit("skip"), Star(Dot), Lit("check")>>,
      description |-> "Request to skip checks"],
     [pattern |-> <<Lit("hardcode"), Star(Dot), Lit("password")>>,
      description |-> "Request to hardcode passwords"],
     [pattern |-> <<Lit("remove"), Star(Dot), One(AuthWords)>>,
      description |-> "Request to remove authentication"],
     [pattern |-> <<Lit("disable"), Star(Dot), Lit("csrf")>>,
      description |-> "Request to disable CSRF protection"],
     [pattern |-> <<Lit("ignore"), Star(Dot), Lit("ssl")>>,
      description |-> "Request to ignore SSL"] >>

\* codeIndicators of validateIssueForAutoFix.
CodeIndicators ==
  { <<Lit("error")>>, <<Lit("bug")>>, <<Lit("crash")>>, <<Lit("exception")>>,
    <<Lit("fix")>>, <<Lit("broken")>>,
    <<One({"doesn't", "doesnt"}), Lit(SP), Lit("work")>>, <<Lit("fails")>>,
    <<Lit("undefined")>>, <<Lit("null")>>, <<Lit("nan")>>,
    <<Lit("line"), Lit(SP), Plus({"1"})>>, <<One({".ts", "a.ts", "a.test.ts"})>>,
    <<One({".js", "a.json", "package.json", "tsconfig.json"})>>, <<Lit("function")>>,
    <<Lit("return")>>, <<One({"import", "important"})>>, <<Lit("export")>> }

HarmfulRequests(text) ==
  {i \in 1 .. Len(HarmfulRequestPatterns) : Test(HarmfulRequestPatterns[i].pattern, text)}

isCodeRelated(text) == \E indicator \in CodeIndicators : Test(indicator, text)

\* Mutation of validateIssueForAutoFix: a code-related text is accepted before the
\* harmful requests are looked for.
validateIssueForAutoFix_CodeFirst(title, body) ==
  LET combinedText == toLowerCase(title \o <<SP>> \o body)
  IN IF isCodeRelated(combinedText) THEN Safe
     ELSE IF HarmfulRequests(combinedText) # {}
     THEN [safe |-> FALSE,
           reason |-> <<"Potentially harmful request detected: ",
                        HarmfulRequestPatterns[FirstOf(HarmfulRequests(combinedText))]
                          .description>>,
           severity |-> "critical"]
     ELSE [safe |-> FALSE, reason |-> <<"Issue does not appear to be code-related">>,
           severity |-> "warning"]

validateIssueForAutoFix(title, body) ==
  LET combinedText == toLowerCase(title \o <<SP>> \o body)
  IN IF HarmfulRequests(combinedText) # {}
     THEN [safe |-> FALSE,
           reason |-> <<"Potentially harmful request detected: ",
                        HarmfulRequestPatterns[FirstOf(HarmfulRequests(combinedText))]
                          .description>>,
           severity |-> "critical"]
     ELSE IF ~isCodeRelated(combinedText)
     THEN [safe |-> FALSE, reason |-> <<"Issue does not appear to be code-related">>,
           severity |-> "warning"]
     ELSE Safe

(***************************************************************************)
(* ChangeValidator.                                                        *)
(***************************************************************************)
\* path.join(context.workingDir, filePath), relative to workingDir: empty and "."
\* segments are dropped and ".." takes back the segment before it.
RECURSIVE NormSegs(_, _)
NormSegs(path, acc) ==
  IF path = <<>> THEN acc
  ELSE IF Head(path) \in {"/", "."} THEN NormSegs(Tail(path), acc)
  ELSE IF Head(path) = ".."
       THEN NormSegs(Tail(path),
                     IF acc # <<>> /\ acc[Len(acc)] # ".."
                     THEN SubSeq(acc, 1, Len(acc) - 1)
                     ELSE Append(acc, ".."))
  ELSE NormSegs(Tail(path), Append(acc, Head(path)))

RECURSIVE JoinSegs(_)
JoinSegs(segs) ==
  IF Len(segs) <= 1 THEN segs
  ELSE <<Head(segs), "/">> \o JoinSegs(Tail(segs))

join(filePath) == JoinSegs(NormSegs(filePath, <<>>))

\* What is at a path under workingDir; the empty path is workingDir itself.
Directory == [exists |-> TRUE]
FileAt(f, fullPath) ==
  IF fullPath = <<>> THEN Directory
  ELSE IF fullPath \in DOMAIN f THEN f[fullPath]
  ELSE NoFile

\* extname(filePath).toLowerCase()
extname(filePath) ==
  IF filePath = <<>> THEN ""
  ELSE LET base == filePath[Len(filePath)]
       IN CASE base \in {"a.ts", "a.test.ts", "A.TS"} -> ".ts"
            [] base \in {"package.json", "tsconfig.json", "a.json", "credentials.json",
                         "secrets.json", "service-account.json"} -> ".json"
            [] base = "README.md" -> ".md"
            [] base = "ci.yml" -> ".yml"
            [] OTHER -> ""

\* content.includes(part)
Includes(content, part) ==
  \E i \in 1 .. (Len(content) - Len(part) + 1) :
     SubSeq(content, i, i + Len(part) - 1) = part

Opens == {"(", "[", "{"}
Pairs == [c \in {")", "]", "}"} |-> CASE c = ")" -> "(" [] c = "]" -> "[" [] c = "}" -> "{"]

\* The loop of checkBrackets from index i on, with the scanner's variables in st.
RECURSIVE ScanBrackets(_, _, _)
ScanBrackets(content, i, st) ==
  IF i > Len(content)
  THEN IF st.stack # <<>>
       THEN [valid |-> FALSE,
             message |-> <<"Unclosed '", st.stack[Len(st.stack)].char, "' from line ",
                           ToString(st.stack[Len(st.stack)].line)>>]
       ELSE [valid |-> TRUE]
  ELSE LET char == content[i]
           nextChar == IF i < Len(content) THEN content[i + 1] ELSE ""
           prevChar == IF i > 1 THEN content[i - 1] ELSE ""
       IN IF char = NL
          THEN ScanBrackets(content, i + 1,
                            [st EXCEPT !.line = @ + 1, !.inComment = FALSE])
          ELSE IF char \in {DQ, SQ, BT} /\ prevChar # BS
          THEN IF ~st.inString /\ ~st.inComment /\ ~st.inMultilineComment
               THEN ScanBrackets(content, i + 1,
                                 [st EXCEPT !.inString = TRUE, !.stringChar = char])
               ELSE IF st.inString /\ char = st.stringChar
               THEN ScanBrackets(content, i + 1, [st EXCEPT !.inString = FALSE])
               ELSE ScanBrackets(content, i + 1, st)
          ELSE IF st.inString THEN ScanBrackets(content, i + 1, st)
          ELSE IF char = "/" /\ nextChar = "/"
          THEN ScanBrackets(content, i + 1, [st EXCEPT !.inComment = TRUE])
          ELSE IF char = "/" /\ nextChar = "*"
          THEN ScanBrackets(content, i + 1, [st EXCEPT !.inMultilineComment = TRUE])
          ELSE IF char = "*" /\ nextChar = "/"
          THEN ScanBrackets(content, i + 2, [st EXCEPT !.inMultilineComment = FALSE])
          ELSE IF st.inComment \/ st.inMultilineComment
          THEN ScanBrackets(content, i + 1, st)
          ELSE IF char \in Opens
          THEN ScanBrackets(content, i + 1,
                            [st EXCEPT !.stack = Append(@, [char |-> char,
                                                            line |-> st.line])])
          ELSE IF char \in DOMAIN Pairs
          THEN IF st.stack = <<>> \/ st.stack[Len(st.stack)].char # Pairs[char]
               THEN [valid |-> FALSE,
                     message |-> <<"Unmatched '", char, "' at line ",
                                   ToString(st.line)>>]
               ELSE ScanBrackets(content, i + 1,
                                 [st EXCEPT !.stack = SubSeq(@, 1, Len(@) - 1)])
          ELSE ScanBrackets(content, i + 1, st)

checkBrackets_LineFromZero(content) ==
  ScanBrackets(content, 1,
               [stack |-> <<>>, inString |-> FALSE, stringChar |-> "",
                inComment |-> FALSE, inMultilineComment |-> FALSE, line |-> 0])

checkBrackets(content) ==
  ScanBrackets(content, 1,
               [stack |-> <<>>, inString |-> FALSE, stringChar |-> "",
                inComment |-> FALSE, inMultilineComment |-> FALSE, line |-> 1])

\* JSON.parse(content) does not throw: the positions after a JSON value, an
\* element list, a member list or a string body that starts at pos.
RECURSIVE SkipWs(_, _)
SkipWs(s, pos) ==
  IF pos <= Len(s) /\ s[pos] \in WS THEN SkipWs(s, pos + 1) ELSE pos

RECURSIVE ParseString(_, _)
ParseString(s, pos) ==
  IF pos > Len(s) THEN {}
  ELSE IF s[pos] = DQ THEN {pos + 1}
  ELSE IF s[pos] \in {NL, TAB} THEN {}
  ELSE IF s[pos] = BS
       THEN IF pos < Len(s) /\ s[pos + 1] \in {DQ, BS, "/", "n", "t"}
            THEN ParseString(s, pos + 2)
            ELSE {}
  ELSE ParseString(s, pos + 1)

RECURSIVE ParseValue(_, _)
RECURSIVE ParseElements(_, _)
RECURSIVE ParseMembers(_, _)
ParseValue(s, pos) ==
  LET p == SkipWs(s, pos)
  IN IF p > Len(s) THEN {}
     ELSE IF s[p] \in {"1", "true"} THEN {p + 1}
     ELSE IF s[p] = DQ THEN ParseString(s, p + 1)
     ELSE IF s[p] = "["
          THEN LET q == SkipWs(s, p + 1)
               IN IF q <= Len(s) /\ s[q] = "]" THEN {q + 1} ELSE ParseElements(s, p + 1)
     ELSE IF s[p] = "{"
          THEN LET q == SkipWs(s, p + 1)
               IN IF q <= Len(s) /\ s[q] = "}" THEN {q + 1} ELSE ParseMembers(s, p + 1)
     ELSE {}

ParseElements(s, pos) ==
  UNION { LET q == SkipWs(s, e)
          IN IF q > Len(s) THEN {}
             ELSE IF s[q] = "]" THEN {q + 1}
             ELSE IF s[q] = "," THEN ParseElements(s, q + 1)
             ELSE {} : e \in ParseValue(s, pos) }

ParseMembers(s, pos) ==
  LET p == SkipWs(s, pos)
  IN IF p > Len(s) \/ s[p] # DQ THEN {}
     ELSE UNION { LET c == SkipWs(s, k)
                  IN IF c > Len(s) \/ s[c] # ":" THEN {}
                     ELSE UNION { LET q == SkipWs(s, e)
                                  IN IF q > Len(s) THEN {}
                                     ELSE IF s[q] = "}" THEN {q + 1}
                                     ELSE IF s[q] = "," THEN ParseMembers(s, q + 1)
                                     ELSE {} : e \in ParseValue(s, c + 1) }
                  : k \in ParseString(s, p + 1) }

JSONParseOk(content) == \E e \in ParseValue(content, 1) : SkipWs(content, e) > Len(content)

\* content.match(/\[.*?\]\(\s*\)/g): the position after "(", white space, ")" at p,
\* the end of the match that starts at i, and the number of matches from pos on.
CloseParenAfter(s, p) ==
  IF p <= Len(s) /\ s[p] = "("
  THEN LET q == SkipWs(s, p + 1)
       IN IF q <= Len(s) /\ s[q] = ")" THEN q + 1 ELSE 0
  ELSE 0

LinkEnd(s, i) ==
  IF s[i] # "[" THEN 0
  ELSE LET J == {j \in (i + 1) .. Len(s) :
                   /\ s[j] = "]"
                   /\ \A k \in (i + 1) .. (j - 1) : s[k] # NL
                   /\ CloseParenAfter(s, j + 1) > 0}
       IN IF J = {} THEN 0 ELSE CloseParenAfter(s, FirstOf(J) + 1)

RECURSIVE EmptyLinks(_, _)
EmptyLinks(s, pos) ==
  IF pos > Len(s) THEN 0
  ELSE IF LinkEnd(s, pos) > 0 THEN 1 + EmptyLinks(s, LinkEnd(s, pos))
  ELSE EmptyLinks(s, pos + 1)

validateContentForExtension(content, extension) ==
  CASE extension = ".ts" ->
         [errors |->
            IF checkBrackets(content).valid THEN <<>>
            ELSE << <<"Unbalanced brackets: ">> \o checkBrackets(content).message >>,
          warnings |->
            (IF /\ Includes(content, <<"console.log">>)
                /\ ~Includes(content, <<"/", "/", SP, "DEBUG">>)
             THEN << <<"Console.log found - consider removing before commit">> >>
             ELSE <<>>)
            \o (IF MatchCount({"TODO", "todo"}, content) > 0
                THEN << <<ToString(MatchCount({"TODO", "todo"}, content)),
                          " TODO comment(s) found">> >>
                ELSE <<>>)]
    [] extension = ".json" ->
         [errors |-> IF JSONParseOk(content) THEN <<>>
                     ELSE << <<"Invalid JSON: ", "e.message">> >>,
          warnings |-> <<>>]
    [] extension = ".yml" ->
         [errors |-> IF Includes(content, <<TAB>>)
                     THEN << <<"YAML files should use spaces, not tabs">> >>
                     ELSE <<>>,
          warnings |-> <<>>]
    [] extension = ".md" ->
         [errors |-> <<>>,
          warnings |-> IF EmptyLinks(content, 1) > 0
                       THEN << <<ToString(EmptyLinks(content, 1)),
                                 " empty link(s) found">> >>
                       ELSE <<>>]
    [] OTHER -> [errors |-> <<>>, warnings |-> <<>>]

\* content.split('\n') and line.trim().
RECURSIVE Split(_)
Split(content) ==
  IF \A i \in 1 .. Len(content) : content[i] # NL THEN <<content>>
  ELSE LET n == FirstOf({i \in 1 .. Len(content) : content[i] = NL})
       IN <<SubSeq(content, 1, n - 1)>> \o Split(SubSeq(content, n + 1, Len(content)))

RECURSIVE Trim(_)
Trim(line) ==
  IF line = <<>> THEN line
  ELSE IF Head(line) \in WS THEN Trim(Tail(line))
  ELSE IF line[Len(line)] \in WS THEN Trim(SubSeq(line, 1, Len(line) - 1))
  ELSE line

LineSet(content) == {Trim(Split(content)[i]) : i \in 1 .. Len(Split(content))}

Max(a, b) == IF a >= b THEN a ELSE b

\* calculateChangeRatio as the fraction changedLines / (totalLines * 2).
changedLines(original, modified) ==
  Cardinality(LineSet(modified) \ LineSet(original))
    + Cardinality(LineSet(original) \ LineSet(modified))

totalLines_DistinctLines(original, modified) ==
  Max(Cardinality(LineSet(original)), Cardinality(LineSet(modified)))

totalLines(original, modified) == Max(Len(Split(original)), Len(Split(modified)))

\* changeRatio > 0.8
MajorRewrite(original, modified) ==
  changedLines(original, modified) * 10 > totalLines(original, modified) * 2 * 8

\* Math.round(changeRatio * 100)
RatioPercent(original, modified) ==
  (changedLines(original, modified) * 100 + totalLines(original, modified))
    \div (2 * totalLines(original, modified))

NoFindings == [errors |-> <<>>, warnings |-> <<>>]

\* The content branch shared by create and modify: missing is the error pushed
\* when newContent is absent or empty.
ContentFindings(change, missing) ==
  IF ~HasContent(change, "newContent")
  THEN [errors |-> <<missing>>, warnings |-> <<>>]
  ELSE validateContentForExtension(change.newContent, extname(change.filePath))

\* Mutation of CreateFindings: an existing target is not looked for.
CreateFindings_NoAccess(change, f) ==
  ContentFindings(change, <<"New file must have content">>)

\* case 'create'
CreateFindings(change, f) ==
  LET content == ContentFindings(change, <<"New file must have content">>)
  IN [errors |->
        (IF FileAt(f, join(change.filePath)).exists
         THEN << <<"File already exists: ">> \o change.filePath >>
         ELSE <<>>) \o content.errors,
      warnings |-> content.warnings]

\* case 'modify'
ModifyFindings(change, f) ==
  LET content == ContentFindings(change, <<"Modified file must have new content">>)
      target == FileAt(f, join(change.filePath))
  IN [errors |->
        (IF target.exists THEN <<>>
         ELSE << <<"File does not exist: ">> \o change.filePath >>)
        \o content.errors
        \o (IF HasContent(change, "originalContent") /\ "content" \notin DOMAIN target
            THEN << <<"File no longer exists">> >>
            ELSE <<>>),
      warnings |->
        content.warnings
        \o (IF /\ HasContent(change, "originalContent")
               /\ "content" \in DOMAIN target
               /\ target.content # change.originalContent
            THEN << <<"File has been modified since original content was captured">> >>
            ELSE <<>>)]

IsTestFile(filePath) ==
  filePath # <<>> /\ filePath[Len(filePath)] \in {"a.test.ts"}

\* Mutation of DeleteFindings: a missing target is an error.
DeleteFindings_MissingIsError(change, f) ==
  [errors |->
     (IF FileAt(f, join(change.filePath)).exists THEN <<>>
      ELSE << <<"File to delete does not exist: ">> \o change.filePath >>)
     \o (IF change.filePath \in {<<"package.json">>, <<"tsconfig.json">>}
         THEN << <<"Cannot delete essential configuration files">> >>
         ELSE <<>>),
   warnings |->
     IF IsTestFile(change.filePath)
     THEN << <<"Deleting a test file - ensure this is intentional">> >>
     ELSE <<>>]

\* case 'delete'
DeleteFindings(change, f) ==
  [errors |->
     IF change.filePath \in {<<"package.json">>, <<"tsconfig.json">>}
     THEN << <<"Cannot delete essential configuration files">> >>
     ELSE <<>>,
   warnings |->
     (IF FileAt(f, join(change.filePath)).exists THEN <<>>
      ELSE << <<"File to delete does not exist: ">> \o change.filePath >>)
     \o (IF IsTestFile(change.filePath)
         THEN << <<"Deleting a test file - ensure this is intentional">> >>
         ELSE <<>>)]

\* The warnings added after the switch: change size and change ratio.
SizeWarnings(change) ==
  (IF /\ HasContent(change, "newContent")
      /\ SumWt(change.newContent, 1, Len(change.newContent)) > 100000
   THEN << <<"Large file change (>100KB) - consider breaking into smaller changes">> >>
   ELSE <<>>)
  \o (IF /\ HasContent(change, "originalContent")
         /\ HasContent(change, "newContent")
         /\ MajorRewrite(change.originalContent, change.newContent)
      THEN << <<"Major file rewrite detected (",
                ToString(RatioPercent(change.originalContent, change.newContent)),
                "% changed) - review carefully">> >>
      ELSE <<>>)

\* A rejected promise.
Thrown(error) == [threw |-> TRUE, error |-> error]
Threw(result) == "threw" \in DOMAIN result

\* switch (change.changeType)
TypeFindings(change, f) ==
  IF "changeType" \notin DOMAIN change THEN NoFindings
  ELSE CASE change.changeType = "create" -> CreateFindings(change, f)
         [] change.changeType = "modify" -> ModifyFindings(change, f)
         [] change.changeType = "delete" -> DeleteFindings(change, f)
         [] OTHER -> NoFindings

\* ChangeValidator.validate(change, context) on the files f under workingDir.
validate(change, f) ==
  IF "filePath" \notin DOMAIN change
  THEN Thrown(<<"TypeError: The \"path\" argument must be of type string">>)
  ELSE [valid |-> TypeFindings(change, f).errors = <<>>,
        errors |-> TypeFindings(change, f).errors,
        warnings |-> TypeFindings(change, f).warnings \o SizeWarnings(change)]

(***************************************************************************)
(* BaseAgent.                                                              *)
(***************************************************************************)
Agents == {"SecurityAgent", "BugFixAgent", "PRReviewAgent"}

FailureCode(a) ==
  CASE a = "SecurityAgent" -> "SCAN_FAILED"
    [] a = "BugFixAgent" -> "FIX_FAILED"
    [] a = "PRReviewAgent" -> "REVIEW_FAILED"

errorResult(code, message, recoverable) ==
  [success |-> FALSE,
   errors |-> <<[code |-> code, message |-> message, recoverable |-> recoverable]>>,
   validated |-> FALSE]

\* BaseAgent.validate(input, context): the errors pushed, then the result.
BaseValidateErrors(context) ==
  (IF context.workingDir = "" THEN << <<"Working directory is required">> >> ELSE <<>>)
  \o (IF context.repoOwner = "" \/ context.repoName = ""
      THEN << <<"Repository owner and name are required">> >>
      ELSE <<>>)

BaseValidate(input, context) ==
  [valid |-> BaseValidateErrors(context) = <<>>,
   errors |-> BaseValidateErrors(context),
   warnings |-> <<>>]

\* PRReviewAgent.validate(input, context)
PRReviewValidate(input, context) ==
  LET errors ==
        BaseValidate(input, context).errors
        \o (IF "prNumber" \notin DOMAIN input \/ input.prNumber = 0
            THEN << <<"PR number is required">> >>
            ELSE <<>>)
  IN [valid |-> errors = <<>>,
      errors |-> errors,
      warnings |-> BaseValidate(input, context).warnings]

\* The messages validateChanges pushes for one valid or invalid ValidationResult.
PrefixedErrors(change, result) ==
  IF result.valid THEN <<>>
  ELSE [i \in 1 .. Len(result.errors) |-> change.filePath \o <<": ">> \o result.errors[i]]

\* The loop of validateChanges over the changes left, with the errors so far.
RECURSIVE ValidateChangesLoop(_, _, _)
ValidateChangesLoop(changes, f, errors) ==
  IF changes = <<>> THEN [valid |-> errors = <<>>, errors |-> errors]
  ELSE LET change == Head(changes)
           safetyResult == checkChange(change)
       IN IF ~safetyResult.safe
          THEN ValidateChangesLoop(Tail(changes), f,
                 Append(errors, change.filePath \o <<": ">> \o safetyResult.reason))
          ELSE IF Threw(validate(change, f)) THEN validate(change, f)
          ELSE ValidateChangesLoop(Tail(changes), f,
                 errors \o PrefixedErrors(change, validate(change, f)))

\* BaseAgent.validateChanges(changes, context) on the files f under workingDir.
validateChanges(changes, f) == ValidateChangesLoop(changes, f, <<>>)

\* The synthetic result of a denied call.
DeniedResult(safetyResult) == [error |-> <<"Safety check failed: ">> \o safetyResult.reason]

\* Mutation of TrackProposedChange: the list is assigned instead of appended to.
TrackProposedChange_Assign(changes, result) ==
  IF "proposedChange" \in DOMAIN result
  THEN <<result.proposedChange>>
  ELSE changes

\* proposedChanges after the wrapper has seen result.
TrackProposedChange(changes, result) ==
  IF "proposedChange" \in DOMAIN result
  THEN Append(changes, result.proposedChange)
  ELSE changes

\* stopWhen: stepCountIs(this.maxSteps)
StopWhen(steps, budget) == steps = budget

\* The verdict of this.safetyChecker.checkToolCall(name, args, context) for each
\* call the model may request.
SafetyVerdict == [c \in ModelCalls |-> checkToolCall(c.name, c.args)]

\* A wrapped execute that has been called and awaits checkToolCall.
Invocation(c, step) ==
  [name |-> c.name, args |-> c.args, step |-> step, pc |-> "check",
   safetyResult |-> SafetyVerdict[c],
   execCount |-> 0, execArgs |-> Undefined, ret |-> Undefined,
   pushes |-> 0, recordAt |-> 0]

RECURSIVE Invocations(_, _)
Invocations(calls, step) ==
  IF calls = <<>> THEN <<>>
  ELSE <<Invocation(Head(calls), step)>> \o Invocations(Tail(calls), step)

Init ==
  /\ agent \in Agents
  /\ ctxValid \in BOOLEAN
  /\ maxSteps \in 1 .. MaxStepBudget
  /\ fs = [p \in FsPaths |-> IF p = <<"a.ts">> THEN File(<<"x">>) ELSE NoFile]
  /\ fs0 = fs
  /\ loopState = "Start"
  /\ stepCount = 0
  /\ modelCalls = 0
  /\ modelThrew = FALSE
  /\ inv = <<>>
  /\ toolCalls = <<>>
  /\ proposedChanges = <<>>
  /\ agentResult = Undefined
  /\ scInput = Undefined
  /\ scResult = Undefined
  /\ client = Undefined

\* execute up to the model request of runAgentLoop, or its validation error.
Execute ==
  /\ loopState = "Start"
  /\ IF ctxValid
     THEN /\ loopState' = "AwaitModel"
          /\ modelCalls' = modelCalls + 1
          /\ UNCHANGED agentResult
     ELSE /\ loopState' = "Returned"
          /\ agentResult' = errorResult("VALIDATION_ERROR", "validation errors", TRUE)
          /\ UNCHANGED modelCalls
  /\ UNCHANGED <<agent, ctxValid, maxSteps, fs, fs0, stepCount, modelThrew, inv,
                 toolCalls, proposedChanges, scVars, client>>

\* The model answers a step: the wrapped execute of every requested call is called.
ModelRespond(calls) ==
  /\ loopState = "AwaitModel"
  /\ Len(inv) + Len(calls) <= MaxInvocations
  /\ IF calls = <<>>
     THEN /\ stepCount' = stepCount + 1
          /\ loopState' = "Done"
          /\ UNCHANGED inv
     ELSE /\ inv' = inv \o Invocations(calls, stepCount + 1)
          /\ loopState' = "DispatchCalls"
          /\ UNCHANGED stepCount
  /\ UNCHANGED <<agent, ctxValid, maxSteps, fs, fs0, modelCalls, modelThrew,
                 toolCalls, proposedChanges, agentResult, scVars, client>>

\* The model call throws: generateText rejects, runAgentLoop lets it out.
ModelThrow ==
  /\ loopState = "AwaitModel"
  /\ loopState' = "Threw"
  /\ modelThrew' = TRUE
  /\ UNCHANGED <<agent, ctxValid, maxSteps, fs, fs0, stepCount, modelCalls, inv,
                 toolCalls, proposedChanges, agentResult, scVars, client>>

\* Mutation of AfterCheck: the denial branch records the synthetic result but
\* does not return, and falls through to the execution of the tool.
AfterCheck_FallThrough(i) ==
  /\ inv[i].pc = "check"
  /\ \A j \in 1 .. (i - 1) : inv[j].pc # "check"
  /\ IF ~inv[i].safetyResult.safe
     THEN /\ toolCalls' = Append(toolCalls,
                                 [name |-> inv[i].name, args |-> inv[i].args,
                                  result |-> DeniedResult(inv[i].safetyResult)])
          /\ inv' = [inv EXCEPT ![i].pc = "exec",
                                ![i].execCount = @ + 1,
                                ![i].execArgs = inv[i].args,
                                ![i].pushes = @ + 1,
                                ![i].recordAt = Len(toolCalls) + 1]
     ELSE /\ inv' = [inv EXCEPT ![i].pc = "exec",
                                ![i].execCount = @ + 1,
                                ![i].execArgs = inv[i].args]
          /\ UNCHANGED toolCalls
  /\ UNCHANGED <<agent, ctxValid, maxSteps, fs, fs0, loopState, stepCount, modelCalls,
                 modelThrew, proposedChanges, agentResult, scVars, client>>

\* Wrapped execute of invocation i resumes after `await checkToolCall`.
AfterCheck(i) ==
  /\ inv[i].pc = "check"
  /\ \A j \in 1 .. (i - 1) : inv[j].pc # "check"
  /\ IF ~inv[i].safetyResult.safe
     THEN /\ toolCalls' = Append(toolCalls,
                                 [name |-> inv[i].name, args |-> inv[i].args,
                                  result |-> DeniedResult(inv[i].safetyResult)])
          /\ inv' = [inv EXCEPT ![i].pc = "returned",
                                ![i].ret = DeniedResult(inv[i].safetyResult),
                                ![i].pushes = @ + 1,
                                ![i].recordAt = Len(toolCalls) + 1]
     ELSE /\ inv' = [inv EXCEPT ![i].pc = "exec",
                                ![i].execCount = @ + 1,
                                ![i].execArgs = inv[i].args]
          /\ UNCHANGED toolCalls
  /\ UNCHANGED <<agent, ctxValid, maxSteps, fs, fs0, loopState, stepCount, modelCalls,
                 modelThrew, proposedChanges, agentResult, scVars, client>>

\* Mutation of CapabilityReturn: a result without a proposed change makes the
\* wrapper call tool.execute once more before it records.
CapabilityReturn_Retry(i) ==
  /\ inv[i].pc = "exec"
  /\ LET result == ToolExecute(inv[i].name, inv[i].execArgs, fs)
     IN IF "proposedChange" \notin DOMAIN result /\ inv[i].execCount < 2
        THEN /\ inv' = [inv EXCEPT ![i].execCount = @ + 1]
             /\ UNCHANGED <<fs, toolCalls, proposedChanges>>
        ELSE /\ fs' = ToolFs(inv[i].name, inv[i].execArgs, fs)
             /\ toolCalls' = Append(toolCalls,
                                    [name |-> inv[i].name, args |-> inv[i].args,
                                     result |-> result])
             /\ proposedChanges' = TrackProposedChange(proposedChanges, result)
             /\ inv' = [inv EXCEPT ![i].pc = "returned",
                                   ![i].ret = result,
                                   ![i].pushes = @ + 1,
                                   ![i].recordAt = Len(toolCalls) + 1]
  /\ UNCHANGED <<agent, ctxValid, maxSteps, fs0, loopState, stepCount, modelCalls,
                 modelThrew, agentResult, scVars, client>>

\* tool.execute of invocation i returns and the wrapper records the result.
CapabilityReturn(i) ==
  /\ inv[i].pc = "exec"
  /\ LET result == ToolExecute(inv[i].name, inv[i].execArgs, fs)
     IN /\ fs' = ToolFs(inv[i].name, inv[i].execArgs, fs)
        /\ toolCalls' = Append(toolCalls,
                               [name |-> inv[i].name, args |-> inv[i].args,
                                result |-> result])
        /\ proposedChanges' = TrackProposedChange(proposedChanges, result)
        /\ inv' = [inv EXCEPT ![i].pc = "returned",
                              ![i].ret = result,
                              ![i].pushes = @ + 1,
                              ![i].recordAt = Len(toolCalls) + 1]
  /\ UNCHANGED <<agent, ctxValid, maxSteps, fs0, loopState, stepCount, modelCalls,
                 modelThrew, agentResult, scVars, client>>

\* tool.execute of invocation i throws: the wrapped execute rejects at its await.
CapabilityThrow(i) ==
  /\ inv[i].pc = "exec"
  /\ ToolMayThrow(inv[i].name)
  /\ inv' = [inv EXCEPT ![i].pc = "threw"]
  /\ UNCHANGED <<agent, ctxValid, maxSteps, fs, fs0, loopState, stepCount, modelCalls,
                 modelThrew, toolCalls, proposedChanges, agentResult, scVars, client>>

\* Mutation of StepEnd: the step ends only when every call has returned a result,
\* so a call that threw leaves generateText waiting.
StepEnd_AwaitsResults ==
  /\ loopState = "DispatchCalls"
  /\ \A i \in 1 .. Len(inv) : inv[i].pc = "returned"
  /\ stepCount' = stepCount + 1
  /\ IF StopWhen(stepCount + 1, maxSteps)
     THEN /\ loopState' = "Done"
          /\ UNCHANGED modelCalls
     ELSE /\ loopState' = "AwaitModel"
          /\ modelCalls' = modelCalls + 1
  /\ UNCHANGED <<agent, ctxValid, maxSteps, fs, fs0, modelThrew, inv, toolCalls,
                 proposedChanges, agentResult, scVars, client>>

\* Every call of the step has settled: generateText ends the step.
StepEnd ==
  /\ loopState = "DispatchCalls"
  /\ \A i \in 1 .. Len(inv) : inv[i].pc \in {"returned", "threw"}
  /\ stepCount' = stepCount + 1
  /\ IF StopWhen(stepCount + 1, maxSteps)
     THEN /\ loopState' = "Done"
          /\ UNCHANGED modelCalls
     ELSE /\ loopState' = "AwaitModel"
          /\ modelCalls' = modelCalls + 1
  /\ UNCHANGED <<agent, ctxValid, maxSteps, fs, fs0, modelThrew, inv, toolCalls,
                 proposedChanges, agentResult, scVars, client>>

\* runAgentLoop returned: execute builds its success result.
ExecuteReturn ==
  /\ loopState = "Done"
  /\ loopState' = "Returned"
  /\ agentResult' = [success |-> TRUE, data |-> [toolCalls |-> toolCalls],
                     proposedChanges |-> proposedChanges, validated |-> TRUE]
  /\ UNCHANGED <<agent, ctxValid, maxSteps, fs, fs0, stepCount, modelCalls, modelThrew,
                 inv, toolCalls, proposedChanges, scVars, client>>

\* Mutation of ExecuteCatch: the changes proposed before the failure are reported.
ExecuteCatch_Partial ==
  /\ loopState = "Threw"
  /\ loopState' = "Returned"
  /\ agentResult' = [success |-> FALSE,
                     errors |-> <<[code |-> FailureCode(agent),
                                   message |-> "error.message",
                                   recoverable |-> FALSE]>>,
                     proposedChanges |-> proposedChanges,
                     validated |-> FALSE]
  /\ UNCHANGED <<agent, ctxValid, maxSteps, fs, fs0, stepCount, modelCalls, modelThrew,
                 inv, toolCalls, proposedChanges, scVars, client>>

\* runAgentLoop threw: the catch block of execute.
ExecuteCatch ==
  /\ loopState = "Threw"
  /\ loopState' = "Returned"
  /\ agentResult' = errorResult(FailureCode(agent), "error.message", FALSE)
  /\ UNCHANGED <<agent, ctxValid, maxSteps, fs, fs0, stepCount, modelCalls, modelThrew,
                 inv, toolCalls, proposedChanges, scVars, client>>

Next ==
  \/ Execute
  \/ \E calls \in StepCalls : ModelRespond(calls)
  \/ ModelThrow
  \/ \E i \in 1 .. Len(inv) : AfterCheck(i)
  \/ \E i \in 1 .. Len(inv) : CapabilityReturn(i)
  \/ \E i \in 1 .. Len(inv) : CapabilityThrow(i)
  \/ StepEnd
  \/ ExecuteReturn
  \/ ExecuteCatch

Spec == Init /\ [][Next]_vars

\* The model and every capability eventually answer, and every continuation that
\* is ready eventually runs.
LiveSpec == Init /\ [][Next]_vars /\ WF_vars(Next)

(***************************************************************************)
(* The agents' execute after runAgentLoop has returned text,               *)
(* proposedChanges and toolCalls: the output each agent builds from them.  *)
(***************************************************************************)
\* A field of a tool result read as a boolean (undefined is falsy).
Flag(result, key) == key \in DOMAIN result /\ result[key]

\* SecurityAgent.execute: the loop over toolCalls, with the values extracted so far.
RECURSIVE ExtractResults(_, _)
ExtractResults(calls, acc) ==
  IF calls = <<>> THEN acc
  ELSE LET call == Head(calls)
           audited ==
             IF call.name = "npmAudit" /\ "vulnerabilities" \in DOMAIN call.result
             THEN [acc EXCEPT !.vulnerabilities = @ \o call.result.vulnerabilities]
             ELSE acc
           updated ==
             IF call.name \in {"npmAuditFix", "npmUpdate"} /\ Flag(call.result, "success")
             THEN [audited EXCEPT !.updatesApplied =
                     Append(@, IF call.name = "npmUpdate"
                               THEN <<"Updated ", call.result.package>>
                               ELSE <<"Applied npm audit fix">>)]
             ELSE audited
           tested ==
             IF call.name = "runTests"
             THEN [updated EXCEPT !.testsRan = TRUE,
                                  !.testsPassed = @ /\ Flag(call.result, "success")]
             ELSE updated
       IN ExtractResults(Tail(calls), tested)

Count(s, P(_)) == Len(SelectSeq(s, P))

calculateRiskScore(vulnerabilities) ==
  LET Weight(v) == CASE v.severity = "critical" -> 40
                     [] v.severity = "high" -> 25
                     [] v.severity = "moderate" -> 10
                     [] OTHER -> 5
      Total[i \in 0 .. Len(vulnerabilities)] ==
        IF i = 0 THEN 0 ELSE Total[i - 1] + Weight(vulnerabilities[i])
  IN Min(Total[Len(vulnerabilities)], 100)

generateRecommendations(vulnerabilities, updatesApplied, testsPassed) ==
  LET critical == Count(vulnerabilities, LAMBDA v : v.severity = "critical")
      high == Count(vulnerabilities, LAMBDA v : v.severity = "high")
      fixable == Count(vulnerabilities, LAMBDA v : v.fixAvailable)
      unfixable == Count(vulnerabilities, LAMBDA v : ~v.fixAvailable)
  IN IF vulnerabilities = <<>>
     THEN << <<"No vulnerabilities found. Dependencies are secure.">> >>
     ELSE (IF critical > 0
           THEN << <<"URGENT: ", ToString(critical),
                     " critical vulnerability(ies) require immediate attention.">> >>
           ELSE <<>>)
          \o (IF high > 0
              THEN << <<ToString(high),
                        " high severity vulnerability(ies) should be addressed soon.">> >>
              ELSE <<>>)
          \o (IF fixable > 0 /\ updatesApplied = <<>>
              THEN << <<ToString(fixable),
                        " vulnerability(ies) can be automatically fixed with npm audit fix.">> >>
              ELSE <<>>)
          \o (IF updatesApplied # <<>>
              THEN IF testsPassed
                   THEN << <<ToString(Len(updatesApplied)),
                             " update(s) applied successfully and tests pass.">> >>
                   ELSE << <<"Updates were applied but tests failed. Manual intervention required.">> >>
              ELSE <<>>)
          \o (IF unfixable > 0
              THEN << <<ToString(unfixable),
                        " vulnerability(ies) require manual review - no automatic fix available.">> >>
              ELSE <<>>)

\* SecurityAgent.generateSummary: the parts joined by newlines.
SecuritySummary(vulnerabilities, updatesApplied, testsPassed) ==
  LET Of(severity) == Count(vulnerabilities, LAMBDA v : v.severity = severity)
      Part(severity) ==
        IF Of(severity) > 0 THEN << <<"- ", ToString(Of(severity)), " ", severity>> >>
        ELSE <<>>
  IN (IF vulnerabilities = <<>>
      THEN << <<"Security scan completed. No vulnerabilities found.">> >>
      ELSE << <<"Security scan completed. Found ", ToString(Len(vulnerabilities)),
                " vulnerability(ies):">> >>
           \o Part("critical") \o Part("high") \o Part("moderate") \o Part("low"))
     \o (IF updatesApplied # <<>>
         THEN << <<"\nApplied ", ToString(Len(updatesApplied)), " update(s).">>,
                 (IF testsPassed THEN <<"All tests pass after updates.">>
                  ELSE <<"Warning: Tests failed after updates.">>) >>
         ELSE <<>>)

\* The output of SecurityAgent.execute.
SecurityAgentOutput(calls) ==
  LET r == ExtractResults(calls, [vulnerabilities |-> <<>>, updatesApplied |-> <<>>,
                                  testsRan |-> FALSE, testsPassed |-> TRUE])
  IN [vulnerabilities |-> r.vulnerabilities,
      riskScore |-> calculateRiskScore(r.vulnerabilities),
      recommendations |->
        generateRecommendations(r.vulnerabilities, r.updatesApplied, r.testsPassed),
      fixableCount |-> Count(r.vulnerabilities, LAMBDA v : v.fixAvailable),
      updatesApplied |-> r.updatesApplied,
      summary |-> SecuritySummary(r.vulnerabilities, r.updatesApplied, r.testsPassed)]

\* BugFixAgent.execute: the last processed issue becomes fixed (its reason is set
\* to undefined, an absent field here).
MarkLastFixed(issuesProcessed, result) ==
  IF issuesProcessed = <<>> THEN issuesProcessed
  ELSE [issuesProcessed EXCEPT ![Len(issuesProcessed)] =
          [issueNumber |-> issuesProcessed[Len(issuesProcessed)].issueNumber,
           status |-> "fixed", prNumber |-> result.prNumber]]

\* BugFixAgent.execute: the loop over toolCalls, with the tracked results so far.
RECURSIVE TrackResults(_, _, _)
TrackResults(calls, input, acc) ==
  IF calls = <<>> THEN acc
  ELSE LET call == Head(calls)
           result == call.result
           got ==
             IF call.name = "getIssue" /\ "issue" \in DOMAIN result
             THEN [acc EXCEPT !.issuesProcessed =
                     Append(@, [issueNumber |-> result.issue.number,
                                status |-> "skipped", reason |-> "Processing"])]
             ELSE acc
           created ==
             IF /\ call.name = "createPullRequest"
                /\ Flag(result, "success")
                /\ "prNumber" \in DOMAIN result
                /\ result.prNumber # 0
             THEN [issuesProcessed |-> MarkLastFixed(got.issuesProcessed, result),
                   issuesFixed |-> got.issuesFixed + 1,
                   pullRequestsCreated |->
                     Append(got.pullRequestsCreated,
                            [number |-> result.prNumber, url |-> result.url,
                             title |-> result.title,
                             issueNumber |-> input.issueNumber])]
             ELSE got
       IN TrackResults(Tail(calls), input, created)

\* The output of BugFixAgent.execute.
BugFixAgentOutput(calls, input) ==
  LET r == TrackResults(calls, input, [issuesProcessed |-> <<>>, issuesFixed |-> 0,
                                       pullRequestsCreated |-> <<>>])
      issuesSkipped == Count(r.issuesProcessed, LAMBDA i : i.status = "skipped")
  IN [issuesProcessed |-> r.issuesProcessed,
      issuesFixed |-> r.issuesFixed,
      issuesSkipped |-> issuesSkipped,
      pullRequestsCreated |-> r.pullRequestsCreated,
      summary |-> <<"Processed ", ToString(Len(r.issuesProcessed)), " issue(s): ",
                    ToString(r.issuesFixed), " fixed, ", ToString(issuesSkipped),
                    " skipped.">>]

\* issuePatterns of parseReviewResponse (flags gi): a keyword, a colon, white
\* space and at least one character of the same line.
IssueKeywords ==
  {"issue", "problem", "bug", "Bug", "error", "concern", "critical", "high", "medium",
   "low"}

issuePatterns == <<One(IssueKeywords), Lit(":"), Star(WS), One(Dot)>>

\* The approval after the loop over toolCalls of parseReviewResponse.
RECURSIVE SubmittedApproval(_, _)
SubmittedApproval(calls, approval) ==
  IF calls = <<>> THEN approval
  ELSE LET call == Head(calls)
       IN SubmittedApproval(Tail(calls),
            IF call.name = "createReview" /\ "event" \in DOMAIN call.args
            THEN CASE call.args.event = "APPROVE" -> "approve"
                   [] call.args.event = "REQUEST_CHANGES" -> "request_changes"
                   [] OTHER -> approval
            ELSE approval)

\* PRReviewAgent.parseReviewResponse: whether the text yields issues (each of
\* severity medium) and the approval.
parseReviewResponse(text, calls) ==
  [issuesFound |-> Test(issuePatterns, text),
   approval |-> IF ~Test(issuePatterns, text) THEN "approve"
                ELSE SubmittedApproval(calls, "comment")]

\* The data of the success result, by agent.
AgentOutput(a, text, calls, input) ==
  CASE a = "SecurityAgent" -> SecurityAgentOutput(calls)
    [] a = "BugFixAgent" -> BugFixAgentOutput(calls, input)
    [] a = "PRReviewAgent" -> parseReviewResponse(text, calls)

(***************************************************************************)
(* Tool filtering of the Jira MCP server (tools/index): getFilteredTools,  *)
(* isToolEnabled and handleTool, for a registry of three categories.       *)
(***************************************************************************)
Categories == <<"issue", "search", "project">>

toolsByCategory ==
  [c \in {"issue", "search", "project"} |->
     CASE c = "issue" -> <<"jira_get_issue", "jira_delete_issue">>
       [] c = "search" -> <<"jira_search_issues">>
       [] c = "project" -> <<"jira_list_projects">>]

\* Object.values(toolsByCategory).flat()
allTools ==
  toolsByCategory[Categories[1]] \o toolsByCategory[Categories[2]]
    \o toolsByCategory[Categories[3]]

\* The property names every object literal inherits from Object.prototype.
InheritedKeys == {"constructor", "toString"}

\* toolCategories[name]: the category filled in for a tool, the inherited
\* member for an inherited key; a name outside the domain reads undefined.
toolCategories ==
  [n \in {allTools[i] : i \in 1 .. Len(allTools)} \cup InheritedKeys |->
     IF n \in InheritedKeys THEN "[Function]"
     ELSE CHOOSE c \in DOMAIN toolsByCategory :
            \E i \in 1 .. Len(toolsByCategory[c]) : toolsByCategory[c][i] = n]

getFilteredTools(config) ==
  LET byCategory ==
        IF config.enabledCategories # {}
        THEN SelectSeq(allTools, LAMBDA t : /\ t \in DOMAIN toolCategories
                                            /\ toolCategories[t] \in config.enabledCategories)
        ELSE allTools
  IN IF config.disabledTools # {}
     THEN SelectSeq(byCategory, LAMBDA t : t \notin config.disabledTools)
     ELSE byCategory

isToolEnabled(toolName, config) ==
  IF toolName \in config.disabledTools THEN FALSE
  ELSE IF config.enabledCategories # {}
          /\ (\/ toolName \notin DOMAIN toolCategories
              \/ toolCategories[toolName] \notin config.enabledCategories)
  THEN FALSE
  ELSE TRUE

\* handleTool: the error thrown, or the category handler the call is routed to
\* (which issues the Jira request).
handleTool(toolName, config) ==
  IF toolName \notin DOMAIN toolCategories
  THEN Thrown(<<"Unknown tool", ": ", toolName>>)
  ELSE IF ~isToolEnabled(toolName, config)
  THEN Thrown(<<"Tool \"", toolName, "\" is disabled">>)
  ELSE IF toolCategories[toolName] \in DOMAIN toolsByCategory
  THEN [handler |-> toolCategories[toolName]]
  ELSE Thrown(<<"Unknown tool", " category: ", toolCategories[toolName]>>)

(***************************************************************************)
(* SafetyChecker's functions applied to inputs drawn from bounded sets.    *)
(***************************************************************************)
Fragments ==
  { <<"x">>, <<"eval">>, <<"(">>, <<SP>>, <<NL>>, <<"password", "=">>,
    <<DQ, "abcdefgh", DQ>>, <<SQ, "abcdefgh", SQ>>, <<"/etc/passwd">>,
    <<"dangerouslySetInnerHTML">>, <<"child_process.exec", "(">> }

RECURSIVE Texts(_)
Texts(n) ==
  IF n = 0 THEN {<<>>}
  ELSE Texts(n - 1) \cup {t \o f : t \in Texts(n - 1), f \in Fragments}

ScToolNames == SENSITIVE_TOOLS \cup MutatingTools \cup {"readFile"}

\* Values of a path argument: free, protected by name, protected by directory,
\* and the empty string.
ScPaths ==
  { <<>>, <<"a.ts">>, <<".env">>, <<"src", "/", ".env">>, <<"secrets", "/", "a.ts">>,
    <<".ssh", "/", "id_rsa">>, <<"src", "/", ".ssh", "/", "id_rsa">> }

ScArgs ==
  {[content |-> c] : c \in Texts(MaxFrags)}
    \cup {[path |-> p, content |-> c] :
            p \in {<<"a.ts">>, <<".env">>}, c \in Texts(MaxFrags)}
    \cup {[comment |-> c] : c \in Texts(1)}
    \cup {[filePath |-> p, content |-> c] : p \in ScPaths, c \in Texts(1)}
    \cup {[path |-> p, filePath |-> q, content |-> c] :
            p \in ScPaths, q \in ScPaths, c \in Texts(1)}

ScInit ==
  /\ agent = "BugFixAgent"
  /\ ctxValid = TRUE
  /\ maxSteps = 1
  /\ fs = [p \in FsPaths |-> NoFile]
  /\ fs0 = fs
  /\ loopState = "Idle"
  /\ stepCount = 0
  /\ modelCalls = 0
  /\ modelThrew = FALSE
  /\ inv = <<>>
  /\ toolCalls = <<>>
  /\ proposedChanges = <<>>
  /\ agentResult = Undefined
  /\ scInput \in {[fn |-> "checkToolCall", toolName |-> t, args |-> a] :
                    t \in ScToolNames, a \in ScArgs}
  /\ scResult = Undefined
  /\ client = Undefined

CallCheckToolCall ==
  /\ scInput # Undefined
  /\ scInput.fn = "checkToolCall"
  /\ scResult = Undefined
  /\ scResult' = checkToolCall(scInput.toolName, scInput.args)
  /\ UNCHANGED <<loopVars, scInput, client>>

ScNext == CallCheckToolCall

SafetySpec == ScInit /\ [][ScNext]_vars

\* The loop is not running while a function is applied on its own.
IdleLoop ==
  /\ agent = "BugFixAgent"
  /\ ctxValid = TRUE
  /\ maxSteps = 1
  /\ loopState = "Idle"
  /\ stepCount = 0
  /\ modelCalls = 0
  /\ modelThrew = FALSE
  /\ inv = <<>>
  /\ toolCalls = <<>>
  /\ proposedChanges = <<>>
  /\ agentResult = Undefined

RECURSIVE TextsOf(_, _)
TextsOf(F, n) ==
  IF n = 0 THEN {<<>>}
  ELSE TextsOf(F, n - 1) \cup {t \o f : t \in TextsOf(F, n - 1), f \in F}

RECURSIVE SeqsUpTo(_, _)
SeqsUpTo(S, n) ==
  IF n = 0 THEN {<<>>}
  ELSE SeqsUpTo(S, n - 1) \cup {Append(t, c) : t \in SeqsUpTo(S, n - 1), c \in S}

(***************************************************************************)
(* SafetyChecker.checkChange applied to changes drawn from bounded sets.   *)
(***************************************************************************)
CcFragments ==
  { <<"x">>, <<NL>>, <<"validate">>, <<"Validate", SP, "validate">>, <<"csrf">>,
    <<"eval", "(">>, <<"dangerouslySetInnerHTML">>, <<"child_process.exec", "(">> }

CcOriginals ==
  { <<>>, <<"x">>, <<"validate">>, <<"validate", SP, "Validate", SP, "validate">>,
    <<"csrf", NL, "validate">>, <<"eval", "(", "sanitize">> }

CcPaths == {<<"a.ts">>, <<".env">>, <<"secrets", "/", "a.ts">>}

ChangeTypes == {"create", "modify", "delete"}

CcChanges ==
  LET News == TextsOf(CcFragments, MaxFrags)
  IN {[filePath |-> p, changeType |-> t, description |-> <<"x">>, riskLevel |-> "medium"] :
        p \in CcPaths, t \in ChangeTypes}
     \cup {[filePath |-> p, changeType |-> t, description |-> <<"x">>,
            riskLevel |-> "medium", newContent |-> n] :
              p \in CcPaths, t \in ChangeTypes, n \in News}
     \cup {[filePath |-> p, changeType |-> t, description |-> <<"x">>,
            riskLevel |-> "medium", originalContent |-> o] :
              p \in CcPaths, t \in ChangeTypes, o \in CcOriginals}
     \cup {[filePath |-> p, changeType |-> t, description |-> <<"x">>,
            riskLevel |-> "medium", originalContent |-> o, newContent |-> n] :
              p \in CcPaths, t \in ChangeTypes, o \in CcOriginals, n \in News}

CcInit ==
  /\ IdleLoop
  /\ fs = [p \in FsPaths |-> NoFile]
  /\ fs0 = fs
  /\ scInput \in {[fn |-> "checkChange", change |-> c] : c \in CcChanges}
  /\ scResult = Undefined
  /\ client = Undefined

CallCheckChange ==
  /\ scInput # Undefined
  /\ scInput.fn = "checkChange"
  /\ scResult = Undefined
  /\ scResult' = checkChange(scInput.change)
  /\ UNCHANGED <<loopVars, scInput, client>>

CcNext == CallCheckChange

ChangeSpec == CcInit /\ [][CcNext]_vars

(***************************************************************************)
(* SafetyChecker.validateIssueForAutoFix applied to titles and bodies      *)
(* drawn from bounded sets.                                                *)
(***************************************************************************)
IssueFragments ==
  { <<"bypass", SP>>, <<"Bypass", SP>>, <<"auth", SP>>, <<"authentication", SP>>,
    <<"remove", SP>>, <<"validation", SP>>, <<"skip", SP>>, <<"check", SP>>,
    <<"disable", SP>>, <<"CSRF", SP>>, <<"ignore", SP>>, <<"SSL", SP>>,
    <<"the", SP>>, <<"logo", SP>>, <<NL>>, <<"fix", SP>>, <<"important", SP>>,
    <<"line", SP>>, <<"1", SP>>, <<"NaN", SP>>, <<"doesn't", SP>>, <<"work", SP>> }

IssueTitles ==
  {<<>>, <<"Bypass">>, <<"remove", SP, "the", SP, "bug">>, <<"fix">>, <<"logo">>}

IssueInit ==
  /\ IdleLoop
  /\ fs = [p \in FsPaths |-> NoFile]
  /\ fs0 = fs
  /\ scInput \in {[fn |-> "validateIssueForAutoFix", title |-> t, body |-> b] :
                    t \in IssueTitles, b \in TextsOf(IssueFragments, MaxFrags)}
  /\ scResult = Undefined
  /\ client = Undefined

CallValidateIssueForAutoFix ==
  /\ scInput # Undefined
  /\ scInput.fn = "validateIssueForAutoFix"
  /\ scResult = Undefined
  /\ scResult' = validateIssueForAutoFix(scInput.title, scInput.body)
  /\ UNCHANGED <<loopVars, scInput, client>>

IssueNext == CallValidateIssueForAutoFix

IssueSpec == IssueInit /\ [][IssueNext]_vars

(***************************************************************************)
(* ChangeValidator.validate, BaseAgent.validateChanges and the agents'     *)
(* validate applied to inputs drawn from bounded sets.                     *)
(***************************************************************************)
VFragments ==
  { <<"x">>, <<"(">>, <<")">>, <<"{">>, <<"}">>, <<NL>>, <<TAB>>, <<DQ>>, <<"1">>,
    <<"console.log">>, <<"/", "/", SP, "DEBUG">>, <<"TODO">>, <<"[", "]", "(", ")">> }

\* The files under workingDir: a populated and an empty working tree.
VFiles ==
  { [p \in {<<"a.ts">>, <<"package.json">>} |->
       IF p = <<"a.ts">> THEN File(<<"x">>) ELSE File(<<"{", "}">>)],
    [p \in {<<"a.ts">>} |-> NoFile] }

VContentPaths ==
  {<<"a.ts">>, <<"src", "/", "A.TS">>, <<"a.json">>, <<"README.md">>, <<"ci.yml">>}

VPaths ==
  { <<"a.ts">>, <<"src", "/", "a.ts">>, <<"a.test.ts">>, <<"package.json">>,
    <<".", "/", "package.json">>, <<"src", "/", "..", "/", "package.json">>,
    <<"tsconfig.json">>, <<".", "/", "tsconfig.json">> }

VTypes == ChangeTypes \cup {"rename"}

VNews == {<<>>, <<"x">>, <<"x100000">>, <<"x100000", "x">>}

VOriginals == {<<"x">>, <<"1">>}

\* Pairs of an original and a new content: short texts of up to two kinds of
\* line, lines that differ in surrounding blanks only, and five-line texts that
\* share one line or none.
VRewrites ==
  (SeqsUpTo({"x", "1", NL}, MaxRatioLen) \X SeqsUpTo({"x", "1", NL}, MaxRatioLen))
  \cup { << <<SP, "x", TAB>>, <<"x">> >>,
         << <<"x", NL, "1", NL, "true", NL, "todo", NL, "DEBUG">>,
            <<"x", NL, "a.ts", NL, "A.TS", NL, "a.json", NL, "ci.yml">> >>,
         << <<"x", NL, "1", NL, "true", NL, "todo", NL, "DEBUG">>,
            <<"a.ts", NL, "A.TS", NL, "a.json", NL, "ci.yml">> >>,
         << <<"a.ts", NL, "A.TS", NL, "a.json", NL, "ci.yml">>,
            <<"x", NL, "1", NL, "true", NL, "todo", NL, "DEBUG">> >> }

\* Changes whose content varies, changes whose other fields vary, and values
\* without changeType or without filePath.
VChanges ==
  {[filePath |-> <<"a.ts">>, changeType |-> "modify", description |-> <<"x">>,
    riskLevel |-> "low", originalContent |-> r[1], newContent |-> r[2]] : r \in VRewrites}
  \cup
  {[filePath |-> p, changeType |-> t, description |-> <<"x">>, riskLevel |-> "low",
    newContent |-> n] :
      p \in VContentPaths, t \in {"create", "modify"}, n \in TextsOf(VFragments, MaxFrags)}
  \cup {[filePath |-> p, changeType |-> t, description |-> <<"x">>, riskLevel |-> r] :
          p \in VPaths, t \in VTypes, r \in {"low", "critical"}}
  \cup {[filePath |-> p, changeType |-> t, description |-> <<"x">>, riskLevel |-> "low",
         newContent |-> n] : p \in VPaths, t \in VTypes, n \in VNews}
  \cup {[filePath |-> p, changeType |-> t, description |-> <<"x">>, riskLevel |-> "low",
         originalContent |-> o] : p \in VPaths, t \in VTypes, o \in VOriginals}
  \cup {[filePath |-> p, changeType |-> t, description |-> <<"x">>, riskLevel |-> "low",
         originalContent |-> o, newContent |-> n] :
           p \in VPaths, t \in VTypes, o \in VOriginals, n \in VNews}
  \cup {[filePath |-> p, description |-> <<"x">>, riskLevel |-> "low", newContent |-> n] :
          p \in VPaths, n \in VNews}
  \cup {[changeType |-> t, description |-> <<"x">>, riskLevel |-> "low",
         newContent |-> <<"x">>] : t \in VTypes}

\* The changes of a set handed to validateChanges.
VcChanges ==
  { [filePath |-> <<"src", "/", "a.ts">>, changeType |-> "create",
     description |-> <<"x">>, riskLevel |-> "medium", newContent |-> <<"x">>],
    [filePath |-> <<"a.ts">>, changeType |-> "modify", description |-> <<"x">>,
     riskLevel |-> "medium", originalContent |-> <<"x">>, newContent |-> <<"x", "x">>],
    [filePath |-> <<"a.ts">>, changeType |-> "modify", description |-> <<"x">>,
     riskLevel |-> "medium", originalContent |-> <<"x">>,
     newContent |-> <<"dangerouslySetInnerHTML">>],
    [filePath |-> <<"a.ts">>, changeType |-> "modify", description |-> <<"x">>,
     riskLevel |-> "medium", originalContent |-> <<"validate", SP, "validate">>,
     newContent |-> <<"validate">>],
    [filePath |-> <<"a.ts">>, changeType |-> "modify", description |-> <<"x">>,
     riskLevel |-> "medium", originalContent |-> <<"x">>, newContent |-> <<"eval", "(">>],
    [filePath |-> <<".env">>, changeType |-> "create", description |-> <<"x">>,
     riskLevel |-> "medium", newContent |-> <<"x">>],
    [filePath |-> <<"a.ts">>, changeType |-> "create", description |-> <<"x">>,
     riskLevel |-> "medium", newContent |-> <<"x">>],
    [filePath |-> <<"a.ts">>, changeType |-> "modify", description |-> <<"x">>,
     riskLevel |-> "medium", newContent |-> <<"(">>] }

VcChangeSets == UNION {[1 .. k -> VcChanges] : k \in 0 .. MaxChanges}

VContexts ==
  [workingDir : {"", "/repo"}, repoOwner : {"", "owner"}, repoName : {"", "repo"}]

VInputs == {[focusAreas |-> <<>>]} \cup {[prNumber |-> n] : n \in {0, 1}}

VInit ==
  /\ IdleLoop
  /\ fs \in VFiles
  /\ fs0 = fs
  /\ scInput \in
       {[fn |-> "validate", change |-> c] : c \in VChanges}
       \cup {[fn |-> "validateChanges", changes |-> cs] : cs \in VcChangeSets}
       \cup {[fn |-> a, input |-> i, context |-> c] :
               a \in {"BaseAgent.validate", "PRReviewAgent.validate"},
               i \in VInputs, c \in VContexts}
  /\ scResult = Undefined
  /\ client = Undefined

CallValidate ==
  /\ scInput # Undefined
  /\ scInput.fn = "validate"
  /\ scResult = Undefined
  /\ scResult' = validate(scInput.change, fs)
  /\ UNCHANGED <<loopVars, scInput, client>>

CallValidateChanges ==
  /\ scInput # Undefined
  /\ scInput.fn = "validateChanges"
  /\ scResult = Undefined
  /\ scResult' = validateChanges(scInput.changes, fs)
  /\ UNCHANGED <<loopVars, scInput, client>>

CallAgentValidate ==
  /\ scInput # Undefined
  /\ scInput.fn \in {"BaseAgent.validate", "PRReviewAgent.validate"}
  /\ scResult = Undefined
  /\ scResult' = IF scInput.fn = "BaseAgent.validate"
                 THEN BaseValidate(scInput.input, scInput.context)
                 ELSE PRReviewValidate(scInput.input, scInput.context)
  /\ UNCHANGED <<loopVars, scInput, client>>

VNext == CallValidate \/ CallValidateChanges \/ CallAgentValidate

ValidatorSpec == VInit /\ [][VNext]_vars

(***************************************************************************)
(* ChangeValidator.checkBrackets applied to contents drawn from bounded    *)
(* sets: sequences of brackets, newlines and other text, and sequences of  *)
(* quotes, backslashes, comment markers and brackets.                      *)
(***************************************************************************)
BracketChars == {"(", ")", "[", "]", "{", "}", NL, "x"}

LiteralFragments ==
  { <<"(">>, <<")">>, <<NL>>, <<DQ>>, <<SQ>>, <<BT>>, <<BS, BS>>,
    <<"/", "/">>, <<"/", "*", SP>>, <<"*", "/">> }

BracketContents ==
  SeqsUpTo(BracketChars, MaxBracketLen)
    \cup TextsOf(LiteralFragments, MaxBracketLen)
    \cup { <<"x", SP, "x", "(", ")", SP, "{", SP, "x", SP, "(", "1", ";", SP, "}">> }

BrInit ==
  /\ IdleLoop
  /\ fs = [p \in FsPaths |-> NoFile]
  /\ fs0 = fs
  /\ scInput \in {[fn |-> "checkBrackets", content |-> c] : c \in BracketContents}
  /\ scResult = Undefined
  /\ client = Undefined

CallCheckBrackets ==
  /\ scInput # Undefined
  /\ scInput.fn = "checkBrackets"
  /\ scResult = Undefined
  /\ scResult' = checkBrackets(scInput.content)
  /\ UNCHANGED <<loopVars, scInput, client>>

BrNext == CallCheckBrackets

BracketSpec == BrInit /\ [][BrNext]_vars

(***************************************************************************)
(* The agents' execute from the return of runAgentLoop on, for texts,      *)
(* proposed changes and tool-call logs drawn from bounded sets: the        *)
(* records the agent's tools can leave (a success, a failure, a denial).   *)
(***************************************************************************)
Denial == DeniedResult([reason |-> <<"Harmful pattern detected: ">>])

SecurityRecords ==
  { [name |-> "npmAudit", args |-> [production |-> FALSE],
     result |-> [success |-> TRUE,
                 vulnerabilities |-> <<[package |-> <<"x">>, severity |-> "critical",
                                        fixAvailable |-> TRUE]>>]],
    [name |-> "npmAuditFix", args |-> [force |-> FALSE], result |-> [success |-> TRUE]],
    [name |-> "npmAuditFix", args |-> [force |-> FALSE],
     result |-> [success |-> FALSE, error |-> <<"Failed to run npm audit fix: ">>]],
    [name |-> "npmUpdate", args |-> [packageName |-> <<"x">>],
     result |-> [success |-> TRUE, package |-> <<"x">>]],
    [name |-> "npmUpdate", args |-> [packageName |-> <<"eval", "(">>], result |-> Denial],
    [name |-> "runTests", args |-> [watch |-> FALSE], result |-> [success |-> TRUE]],
    [name |-> "runTests", args |-> [watch |-> FALSE],
     result |-> [success |-> FALSE, error |-> <<"Tests failed: ">>]] }

\* Issue 1 reports a bug; issue 2 asks to remove the validation.
BugFixRecords ==
  { [name |-> "getIssue", args |-> [issueNumber |-> 1],
     result |-> [success |-> TRUE,
                 issue |-> [number |-> 1, title |-> <<"fix">>, body |-> <<"bug">>]]],
    [name |-> "getIssue", args |-> [issueNumber |-> 2],
     result |-> [success |-> TRUE,
                 issue |-> [number |-> 2, title |-> <<"fix">>,
                            body |-> <<"remove", SP, "the", SP, "validation">>]]],
    [name |-> "getIssue", args |-> [issueNumber |-> 3],
     result |-> [success |-> FALSE, error |-> <<"Failed to get issue: ">>]],
    [name |-> "createPullRequest", args |-> [title |-> <<"fix">>],
     result |-> [success |-> TRUE, prNumber |-> 7, url |-> <<"x">>, title |-> <<"fix">>]],
    [name |-> "createPullRequest", args |-> [title |-> <<"fix">>],
     result |-> [success |-> FALSE, error |-> <<"Failed to create PR: ">>]],
    [name |-> "createPullRequest", args |-> [title |-> <<"eval", "(">>],
     result |-> Denial] }

PRReviewRecords ==
  { [name |-> "createReview", args |-> [prNumber |-> 1, event |-> e],
     result |-> [success |-> TRUE, reviewId |-> 1]] :
       e \in {"APPROVE", "REQUEST_CHANGES", "COMMENT"} }
  \cup { [name |-> "createReview", args |-> [prNumber |-> 1, event |-> "REQUEST_CHANGES"],
          result |-> [success |-> FALSE, error |-> <<"Failed to create review: ">>]] }

ReviewTexts ==
  { <<>>, <<"LGTM">>, <<"Bug", ":", SP, "x">>, <<"critical", ":", NL, "x">>,
    <<"bug", ":">>, <<"x", NL, "bug", ":", SP>> }

\* What runAgentLoop can hand back as proposedChanges: nothing, a new file, a
\* modification with unbalanced brackets, and a modification that drops a
\* security keyword.
ProposedChangeSets ==
  { <<>>,
    <<[filePath |-> <<"src", "/", "a.ts">>, changeType |-> "create",
       newContent |-> <<"x">>, description |-> <<"x">>, riskLevel |-> "medium"]>>,
    <<[filePath |-> <<"a.ts">>, changeType |-> "modify", originalContent |-> <<"x">>,
       newContent |-> <<"(">>, description |-> <<"x">>, riskLevel |-> "medium"]>>,
    <<[filePath |-> <<"a.ts">>, changeType |-> "modify",
       originalContent |-> <<"validate", SP, "validate">>,
       newContent |-> <<"validate">>, description |-> <<"x">>, riskLevel |-> "medium"]>> }

LogsOf(a) ==
  SeqsUpTo(CASE a = "SecurityAgent" -> SecurityRecords
             [] a = "BugFixAgent" -> BugFixRecords
             [] a = "PRReviewAgent" -> PRReviewRecords, MaxLogLen)

ResInit ==
  /\ agent \in Agents
  /\ ctxValid = TRUE
  /\ maxSteps = 1
  /\ fs = [p \in FsPaths |-> IF p = <<"a.ts">> THEN File(<<"x">>) ELSE NoFile]
  /\ fs0 = fs
  /\ loopState = "Done"
  /\ stepCount = 1
  /\ modelCalls = 1
  /\ modelThrew = FALSE
  /\ inv = <<>>
  /\ toolCalls \in LogsOf(agent)
  /\ proposedChanges \in (IF agent = "SecurityAgent" THEN {<<>>} ELSE ProposedChangeSets)
  /\ agentResult = Undefined
  /\ scInput \in {[fn |-> "execute", text |-> t, input |-> [issueNumber |-> n]] :
                    t \in (IF agent = "PRReviewAgent" THEN ReviewTexts ELSE {<<>>}),
                    n \in (IF agent = "BugFixAgent" THEN {0, 2} ELSE {0})}
  /\ scResult = Undefined
  /\ client = Undefined

\* The success result of agent a's execute.
ResultReturn(a) ==
  /\ agent = a
  /\ loopState = "Done"
  /\ loopState' = "Returned"
  /\ agentResult' = [success |-> TRUE,
                     data |-> AgentOutput(a, scInput.text, toolCalls, scInput.input),
                     proposedChanges |-> proposedChanges, validated |-> TRUE]
  /\ UNCHANGED <<agent, ctxValid, maxSteps, fs, fs0, stepCount, modelCalls, modelThrew,
                 inv, toolCalls, proposedChanges, scVars, client>>

ResNext ==
  \/ ResultReturn("SecurityAgent")
  \/ ResultReturn("BugFixAgent")
  \/ ResultReturn("PRReviewAgent")

ResultSpec == ResInit /\ [][ResNext]_vars

(***************************************************************************)
(* The server's ListTools and CallTool handlers for every filter           *)
(* configuration over the registry and for known and unknown tool names.   *)
(***************************************************************************)
FilterConfigs ==
  [enabledCategories : SUBSET {"issue", "search", "nosuch"},
   disabledTools : SUBSET {"jira_delete_issue", "jira_search_issues", "nope"}]

RequestedNames == {allTools[i] : i \in 1 .. Len(allTools)} \cup InheritedKeys \cup {"nope"}

FilterInit ==
  /\ IdleLoop
  /\ fs = [p \in FsPaths |-> NoFile]
  /\ fs0 = fs
  /\ scInput \in {[fn |-> "getFilteredTools", config |-> c] : c \in FilterConfigs}
                 \cup {[fn |-> "handleTool", config |-> c, toolName |-> n] :
                         c \in FilterConfigs, n \in RequestedNames}
  /\ scResult = Undefined
  /\ client = Undefined

CallGetFilteredTools ==
  /\ scInput # Undefined
  /\ scInput.fn = "getFilteredTools"
  /\ scResult = Undefined
  /\ scResult' = [tools |-> getFilteredTools(scInput.config)]
  /\ UNCHANGED <<loopVars, scInput, client>>

CallHandleTool ==
  /\ scInput # Undefined
  /\ scInput.fn = "handleTool"
  /\ scResult = Undefined
  /\ scResult' = handleTool(scInput.toolName, scInput.config)
  /\ UNCHANGED <<loopVars, scInput, client>>

FilterNext == CallGetFilteredTools \/ CallHandleTool

FilterSpec == FilterInit /\ [][FilterNext]_vars

(***************************************************************************)
(* JiraClient (auth/jira-client): the cloudId initialization shared by     *)
(* concurrent requests.  cloudId "null" is null; initPromise is "null",    *)
(* "pending", "fulfilled" or "rejected".                                   *)
(***************************************************************************)
\* new JiraClient(config)
JiraClient(config) ==
  [config |-> config,
   cloudId |-> IF config.cloudId # "null" THEN config.cloudId ELSE "null",
   initPromise |-> "null",
   fetches |-> 0,
   reqs |-> [i \in 1 .. MaxRequests |-> [pc |-> "idle", awaits |-> "none",
                                          joined |-> FALSE, url |-> <<>>]]]

\* Mutation of ensureInitialized: a pending initialization is not looked for.
ensureInitialized_NoGuard(c) ==
  IF c.config.tokenType = "classic" THEN [client |-> c, awaits |-> "resolved"]
  ELSE IF c.cloudId # "null" THEN [client |-> c, awaits |-> "resolved"]
  ELSE [client |-> [c EXCEPT !.initPromise = "pending", !.fetches = @ + 1],
        awaits |-> "initPromise"]

\* ensureInitialized up to its return: the client after it, and the promise the
\* caller awaits.  fetchCloudId runs up to its `await fetch(tenantInfoUrl)`.
ensureInitialized(c) ==
  IF c.config.tokenType = "classic" THEN [client |-> c, awaits |-> "resolved"]
  ELSE IF c.cloudId # "null" THEN [client |-> c, awaits |-> "resolved"]
  ELSE IF c.initPromise # "null" THEN [client |-> c, awaits |-> "initPromise"]
  ELSE [client |-> [c EXCEPT !.initPromise = "pending", !.fetches = @ + 1],
        awaits |-> "initPromise"]

buildUrl(c) ==
  IF c.config.tokenType = "scoped"
  THEN <<"https://api.atlassian.com/ex/jira/", c.cloudId, "/rest/api/3">>
  ELSE <<"host", "/rest/api/3">>

\* request(path, options) is called: it runs to `await this.ensureInitialized()`.
Request(i) ==
  /\ client.reqs[i].pc = "idle"
  /\ client' = [ensureInitialized(client).client EXCEPT
                  !.reqs[i] = [pc |-> "await",
                               awaits |-> ensureInitialized(client).awaits,
                               joined |-> client.initPromise = "pending",
                               url |-> <<>>]]
  /\ UNCHANGED <<loopVars, scVars>>

\* fetchCloudId resumes with a tenant info that holds a cloudId.
FetchCloudIdReturn ==
  /\ client.initPromise = "pending"
  /\ client' = [client EXCEPT !.cloudId = "c2", !.initPromise = "fulfilled"]
  /\ UNCHANGED <<loopVars, scVars>>

\* fetchCloudId throws: the fetch fails, the response is not ok or holds no cloudId.
FetchCloudIdThrow ==
  /\ client.initPromise = "pending"
  /\ client' = [client EXCEPT !.initPromise = "rejected"]
  /\ UNCHANGED <<loopVars, scVars>>

\* request resumes after the await: it builds the URL and sends the request.
RequestResume(i) ==
  /\ client.reqs[i].pc = "await"
  /\ \/ client.reqs[i].awaits = "resolved"
     \/ client.reqs[i].awaits = "initPromise" /\ client.initPromise = "fulfilled"
  /\ client' = [client EXCEPT !.reqs[i].pc = "sent", !.reqs[i].url = buildUrl(client)]
  /\ UNCHANGED <<loopVars, scVars>>

\* The awaited initialization is rejected: request rejects with its error.
RequestReject(i) ==
  /\ client.reqs[i].pc = "await"
  /\ client.reqs[i].awaits = "initPromise"
  /\ client.initPromise = "rejected"
  /\ client' = [client EXCEPT !.reqs[i].pc = "failed"]
  /\ UNCHANGED <<loopVars, scVars>>

\* The Jira API answers the request.
RequestReturn(i) ==
  /\ client.reqs[i].pc = "sent"
  /\ client' = [client EXCEPT !.reqs[i].pc = "done"]
  /\ UNCHANGED <<loopVars, scVars>>

ClientInit ==
  /\ IdleLoop
  /\ fs = [p \in FsPaths |-> NoFile]
  /\ fs0 = fs
  /\ scInput = Undefined
  /\ scResult = Undefined
  /\ client \in {JiraClient([tokenType |-> t, cloudId |-> c]) :
                   t \in {"classic", "scoped"}, c \in {"null", "c1"}}

ClientNext ==
  \/ \E i \in 1 .. MaxRequests : Request(i)
  \/ FetchCloudIdReturn
  \/ FetchCloudIdThrow
  \/ \E i \in 1 .. MaxRequests : RequestResume(i)
  \/ \E i \in 1 .. MaxRequests : RequestReject(i)
  \/ \E i \in 1 .. MaxRequests : RequestReturn(i)

ClientSpec == ClientInit /\ [][ClientNext]_vars

(***************************************************************************)
(* Properties.                                                             *)
(***************************************************************************)
Denied(i) == ~inv[i].safetyResult.safe
Settled(i) == inv[i].pc \in {"returned", "threw"}
Quiescent == loopState \in {"Done", "Returned"}

\* C1: when checkToolCall returns safe=false for an invocation, the tool's execute
\* is never called for it, the wrapper returns {error: 'Safety check failed:
\* <reason>'}, and that same object is the result of the invocation's record.
C1_DeniedNeverExecuted ==
  \A i \in 1 .. Len(inv) :
    Denied(i) =>
      /\ inv[i].execCount = 0
      /\ inv[i].pc \in {"check", "returned"}
      /\ inv[i].pc = "returned" =>
           /\ inv[i].ret = [error |-> <<"Safety check failed: ">>
                                        \o inv[i].safetyResult.reason]
           /\ inv[i].pushes = 1
           /\ toolCalls[inv[i].recordAt] =
                [name |-> inv[i].name, args |-> inv[i].args, result |-> inv[i].ret]

\* A denied invocation has returned, after another invocation was recorded.
C1_Witness ==
  \E i \in 1 .. Len(inv) :
    /\ Denied(i)
    /\ inv[i].pc = "returned"
    /\ inv[i].recordAt > 1

\* C2: if invocation A was made before invocation B, A's record precedes B's in
\* toolCalls, under every interleaving of the calls of one model step.
C2_InvocationOrder ==
  \A i, j \in 1 .. Len(inv) :
    (i < j /\ inv[i].recordAt > 0 /\ inv[j].recordAt > 0)
      => inv[i].recordAt < inv[j].recordAt

\* C3: every invocation (denied, executed with a result, or executed with the tool
\* throwing) leaves exactly one record in toolCalls, so that the length of the log
\* equals the number of invocations made.
C3_OneRecordPerInvocation ==
  /\ \A i \in 1 .. Len(inv) : Settled(i) => inv[i].pushes = 1
  /\ Quiescent => Len(toolCalls) = Len(inv)

\* C4: the model is consulted in at most maxSteps steps, nothing is requested or
\* invoked once they have completed, and with maxSteps = 1 the returned toolCalls
\* holds exactly the calls issued in the first step.
C4_StepBudget ==
  /\ modelCalls <= maxSteps
  /\ stepCount <= maxSteps
  /\ \A i \in 1 .. Len(inv) : inv[i].step <= maxSteps
  /\ stepCount = maxSteps => loopState \in {"Done", "Returned"}
  /\ (maxSteps = 1 /\ Quiescent /\ ~modelThrew) =>
        /\ \A i \in 1 .. Len(inv) : inv[i].step = 1
        /\ Len(toolCalls) = Len(inv)
        /\ \A i \in 1 .. Len(inv) :
             /\ inv[i].recordAt \in 1 .. Len(toolCalls)
             /\ toolCalls[inv[i].recordAt].name = inv[i].name
             /\ toolCalls[inv[i].recordAt].args = inv[i].args

\* C5: provided the model and the capabilities respond, every run of the loop
\* reaches Done, whatever the model requests and whatever is denied.
C5_Terminates == <>(loopState = "Done" \/ modelThrew \/ ~ctxValid)

\* The run is Done with the budget exhausted, calls in every step, all denied.
C5_Witness ==
  /\ loopState = "Done"
  /\ stepCount = maxSteps
  /\ maxSteps > 1
  /\ \A n \in 1 .. maxSteps : \E i \in 1 .. Len(inv) : inv[i].step = n
  /\ \A i \in 1 .. Len(inv) : Denied(i)

\* C6: when the model call throws there is no second model call, and execute
\* returns success=false, validated=false and one error, without data and without
\* proposedChanges, also when calls were recorded and changes proposed before.
C6_ModelFailureIsFailedRun ==
  modelThrew =>
    /\ loopState \in {"Threw", "Returned"}
    /\ modelCalls = stepCount + 1
    /\ loopState = "Returned" =>
         /\ DOMAIN agentResult = {"success", "errors", "validated"}
         /\ agentResult.success = FALSE
         /\ agentResult.validated = FALSE
         /\ Len(agentResult.errors) = 1
         /\ agentResult.errors[1].code = FailureCode(agent)
         /\ agentResult.errors[1].recoverable = FALSE

\* execute has returned after a model failure that followed a recorded call and a
\* proposed change.
C6_Witness ==
  /\ modelThrew
  /\ loopState = "Returned"
  /\ Len(toolCalls) > 0
  /\ Len(proposedChanges) > 0

RECURSIVE ChangesOf(_)
ChangesOf(log) ==
  IF log = <<>> THEN <<>>
  ELSE (IF "proposedChange" \in DOMAIN Head(log).result
        THEN <<Head(log).result.proposedChange>>
        ELSE <<>>) \o ChangesOf(Tail(log))

\* C7: proposedChanges is the sequence of the proposedChange fields of the
\* toolCalls records that carry one, in the order of these records; a denied
\* invocation adds none, so there are never more changes than executed calls.
C7_ChangesMirrorLog ==
  /\ proposedChanges = ChangesOf(toolCalls)
  /\ Len(proposedChanges) <= Cardinality({i \in 1 .. Len(inv) : inv[i].execCount > 0})

\* Two different changes were proposed, with a denied call recorded between them.
C7_Witness ==
  /\ Len(proposedChanges) = 2
  /\ proposedChanges[1] # proposedChanges[2]
  /\ Len(toolCalls) = 3
  /\ "error" \in DOMAIN toolCalls[2].result

\* C8: for an invocation that passes the safety check the tool's execute is called
\* exactly once, with the arguments the wrapper received, the wrapper returns the
\* value the tool produced, and there is no second call.
C8_PassThrough ==
  \A i \in 1 .. Len(inv) :
    ~Denied(i) =>
      /\ inv[i].pc = "check" => inv[i].execCount = 0
      /\ inv[i].pc # "check" =>
           /\ inv[i].execCount = 1
           /\ inv[i].execArgs = inv[i].args
      /\ inv[i].pc = "returned" =>
           /\ inv[i].ret = ToolExecute(inv[i].name, inv[i].args, fs0)
           /\ toolCalls[inv[i].recordAt].result = inv[i].ret

\* An executed read and an executed write have both returned.
C8_Witness ==
  /\ \E i \in 1 .. Len(inv) :
       ~Denied(i) /\ inv[i].pc = "returned" /\ inv[i].name = "readFile"
  /\ \E i \in 1 .. Len(inv) :
       ~Denied(i) /\ inv[i].pc = "returned" /\ inv[i].name = "writeFile"

\* C9: writeFile and the loop never change a file under workingDir: after any
\* sequence of writeFile invocations, allowed or denied, the files are as before,
\* and the new content exists only as a ProposedChange of proposedChanges.
C9_WriteFileInert ==
  /\ fs = fs0
  /\ \A i \in 1 .. Len(inv) :
       (inv[i].name = "writeFile" /\ ~Denied(i) /\ inv[i].pc = "returned") =>
          \E k \in 1 .. Len(proposedChanges) :
             /\ proposedChanges[k].filePath = inv[i].args.path
             /\ proposedChanges[k].newContent = inv[i].args.content
  /\ \A k \in 1 .. Len(proposedChanges) :
       \E i \in 1 .. Len(inv) :
          /\ inv[i].name = "writeFile" /\ ~Denied(i) /\ inv[i].pc = "returned"
          /\ proposedChanges[k].filePath = inv[i].args.path
          /\ proposedChanges[k].newContent = inv[i].args.content

\* An allowed write to a new file and a denied write have returned; the file is
\* still absent.
C9_Witness ==
  /\ \E i \in 1 .. Len(inv) :
       /\ inv[i].name = "writeFile" /\ ~Denied(i) /\ inv[i].pc = "returned"
       /\ ~fs[inv[i].args.path].exists
  /\ \E i \in 1 .. Len(inv) :
       inv[i].name = "writeFile" /\ Denied(i) /\ inv[i].pc = "returned"

\* The protected-path check of checkToolCall has a path to test and rejects it.
PathRejected(args) == PathArg(args) # <<>> /\ ~checkProtectedFile(PathArg(args)).safe

\* C11: every registered capability that changes the working tree, the git
\* repository or remote issue/PR state is in the sensitive set, so that a call of
\* it whose serialized arguments match a harmful pattern or whose path argument is
\* protected is denied by checkToolCall.
C11_MutatingToolsScrutinized ==
  (/\ scResult # Undefined
   /\ scInput.fn = "checkToolCall"
   /\ scInput.toolName \in MutatingTools
   /\ \/ HarmfulMatches(JSONStringify(scInput.args)) # {}
      \/ PathRejected(scInput.args)) => scResult.safe = FALSE

\* The values under the path and filePath keys of args that checkProtectedFile
\* rejects.
ProtectedPathValues(args) ==
  {args[k] : k \in {k \in {"path", "filePath"} \cap DOMAIN args :
                      args[k] # <<>> /\ ~checkProtectedFile(args[k]).safe}}

\* C12: for a sensitive tool whose serialized arguments match no harmful pattern,
\* checkToolCall returns safe=false with severity critical when the value under
\* path or the value under filePath is protected, also when both keys are present
\* and only one of the two values is protected.
C12_ProtectedPathDenied ==
  (/\ scResult # Undefined
   /\ scInput.fn = "checkToolCall"
   /\ scInput.toolName \in SENSITIVE_TOOLS
   /\ HarmfulMatches(JSONStringify(scInput.args)) = {}
   /\ ProtectedPathValues(scInput.args) # {}) =>
     /\ scResult.safe = FALSE
     /\ scResult.severity = "critical"

\* The indices of the harmful patterns that the value of some argument matches.
ValueMatches(args) == UNION {HarmfulMatches(args[k]) : k \in DOMAIN args}

\* C10: for every sensitive tool name and every args object with an argument value
\* that matches a harmful pattern, checkToolCall returns safe=false with the
\* severity and description of the first pattern, in list order, that matches the
\* serialized arguments.
C10_HarmfulValueDenied ==
  (/\ scResult # Undefined
   /\ scInput.fn = "checkToolCall"
   /\ scInput.toolName \in SENSITIVE_TOOLS
   /\ ValueMatches(scInput.args) # {}) =>
     LET hits == HarmfulMatches(JSONStringify(scInput.args))
     IN /\ scResult.safe = FALSE
        /\ hits # {}
        /\ scResult.severity = HARMFUL_PATTERNS[FirstOf(hits)].severity
        /\ scResult.reason = <<HARMFUL_PATTERNS[FirstOf(hits)].description,
                               " detected in tool arguments">>

\* checkChange has returned its verdict on scInput.change.
ChangeChecked == scResult # Undefined /\ scInput.fn = "checkChange"

\* C13: checkChange returns the verdict of the first failing check in the order
\* protected path, harmful content (patterns in list order), security regression:
\* a protected filePath is critical whatever the content and the change type, a
\* harmful newContent on an unprotected path gives that pattern's severity also
\* when a regression is present, and safe=true is returned only when all pass.
C13_FirstFailingCheckWins ==
  ChangeChecked =>
      LET c == scInput.change
          protected == ~checkProtectedFile(c.filePath).safe
          hits == IF HasContent(c, "newContent") THEN HarmfulMatches(c.newContent) ELSE {}
          regression == ~RegressionCheck(c).safe
      IN /\ protected =>
              /\ scResult.safe = FALSE
              /\ scResult.severity = "critical"
              /\ scResult.reason = checkProtectedFile(c.filePath).reason
         /\ (~protected /\ hits # {}) =>
              /\ scResult.safe = FALSE
              /\ scResult.severity = HARMFUL_PATTERNS[FirstOf(hits)].severity
              /\ scResult.reason = <<HARMFUL_PATTERNS[FirstOf(hits)].description,
                                     " in proposed change">>
         /\ (~protected /\ hits = {} /\ regression) =>
              /\ scResult.safe = FALSE
              /\ scResult.severity = "warning"
         /\ scResult.safe <=> (~protected /\ hits = {} /\ ~regression)

\* A modify of an unprotected file whose new content matches an error-severity
\* pattern and drops a security keyword got the pattern's verdict.
C13_Witness ==
  /\ ChangeChecked
  /\ LET c == scInput.change IN
    /\ checkProtectedFile(c.filePath).safe
    /\ ~RegressionCheck(c).safe
    /\ HasContent(c, "newContent")
    /\ HarmfulMatches(c.newContent) # {}
    /\ scResult.severity = "error"

\* A keyword of the regression heuristic occurs in original and less often in
\* modified.
KeywordDropped(original, modified) ==
  \E k \in 1 .. Len(SecurityPatterns) :
    /\ MatchCount(SecurityPatterns[k].words, original) > 0
    /\ MatchCount(SecurityPatterns[k].words, original)
         > MatchCount(SecurityPatterns[k].words, modified)

\* C14: for a modify on an unprotected path with non-empty originalContent and
\* newContent and no harmful pattern in newContent, checkChange returns safe=false
\* with severity warning if and only if some security keyword occurs in
\* originalContent and strictly less often in newContent, counted without regard
\* to letter case; for create and delete the heuristic gives no verdict.
C14_RegressionHeuristic ==
  ChangeChecked =>
  LET c == scInput.change IN
    (/\ checkProtectedFile(c.filePath).safe
     /\ (HasContent(c, "newContent") => HarmfulMatches(c.newContent) = {})) =>
       /\ (/\ c.changeType = "modify"
           /\ HasContent(c, "originalContent")
           /\ HasContent(c, "newContent")) =>
             /\ scResult.safe <=> ~KeywordDropped(c.originalContent, c.newContent)
             /\ ~scResult.safe => scResult.severity = "warning"
       /\ c.changeType # "modify" => scResult.safe

\* The modify that keeps one of three occurrences of validate got a warning.
C14_Witness ==
  /\ ChangeChecked
  /\ LET c == scInput.change IN
    /\ c.changeType = "modify"
    /\ c.filePath = <<"a.ts">>
    /\ HasContent(c, "originalContent")
    /\ HasContent(c, "newContent")
    /\ MatchCount({"validate", "Validate"}, c.originalContent) = 3
    /\ MatchCount({"validate", "Validate"}, c.newContent) = 1
    /\ scResult.safe = FALSE
    /\ scResult.severity = "warning"

\* validateChanges has returned a result for scInput.changes.
ChangesValidated ==
  scResult # Undefined /\ scInput.fn = "validateChanges" /\ ~Threw(scResult)

\* C15: warning-severity safety verdicts are advisory: when, for each change of the
\* set, checkChange finds nothing or only a warning-severity verdict and
\* ChangeValidator.validate reports no errors, validateChanges returns valid=true
\* with an empty errors list.
C15_WarningsNeverBlock ==
  (/\ ChangesValidated
   /\ \A i \in 1 .. Len(scInput.changes) :
        /\ \/ checkChange(scInput.changes[i]).safe
           \/ checkChange(scInput.changes[i]).severity = "warning"
        /\ validate(scInput.changes[i], fs).valid) =>
     /\ scResult.valid
     /\ scResult.errors = <<>>

\* validateIssueForAutoFix has returned, and the text it decides on.
IssueChecked == scResult # Undefined /\ scInput.fn = "validateIssueForAutoFix"
IssueText == toLowerCase(scInput.title \o <<SP>> \o scInput.body)

\* C16: validateIssueForAutoFix returns one of three outcomes, decided in this
\* order on the lower-cased 'title body': critical with the reason of the first
\* matching harmful-intent rule, also when code signals are present; otherwise a
\* warning when no code-relatedness signal matches; otherwise safe=true.
C16_IssueTriage ==
  IssueChecked =>
    /\ HarmfulRequests(IssueText) # {} =>
         /\ scResult.safe = FALSE
         /\ scResult.severity = "critical"
         /\ scResult.reason =
              <<"Potentially harmful request detected: ",
                HarmfulRequestPatterns[FirstOf(HarmfulRequests(IssueText))].description>>
    /\ (HarmfulRequests(IssueText) = {} /\ ~isCodeRelated(IssueText)) =>
         /\ scResult.safe = FALSE
         /\ scResult.severity = "warning"
    /\ (HarmfulRequests(IssueText) = {} /\ isCodeRelated(IssueText)) =>
         scResult = [safe |-> TRUE]

\* A code-related text that matches two harmful-intent rules, the match of the
\* first one reaching from the title into the body, was rejected as critical.
C16_Witness ==
  /\ IssueChecked
  /\ Cardinality(HarmfulRequests(IssueText)) >= 2
  /\ HarmfulRequests(toLowerCase(scInput.body)) = {}
  /\ isCodeRelated(IssueText)
  /\ scResult.severity = "critical"

\* A ValidationResult has been returned by one of the three validate functions.
ValidationReturned ==
  /\ scResult # Undefined
  /\ scInput.fn \in {"validate", "BaseAgent.validate", "PRReviewAgent.validate"}
  /\ ~Threw(scResult)

\* The texts of the advisory findings of ChangeValidator.validate.
AdvisoryTexts ==
  { "File has been modified since original content was captured",
    "File to delete does not exist: ",
    "Deleting a test file - ensure this is intentional",
    "Large file change (>100KB) - consider breaking into smaller changes",
    "Major file rewrite detected (",
    "Console.log found - consider removing before commit",
    " TODO comment(s) found",
    " empty link(s) found" }

IsAdvisory(message) == \E i \in 1 .. Len(message) : message[i] \in AdvisoryTexts

Warned(text) ==
  \E i \in 1 .. Len(scResult.warnings) :
     \E j \in 1 .. Len(scResult.warnings[i]) : scResult.warnings[i][j] = text

\* C17: every ValidationResult of ChangeValidator.validate, BaseAgent.validate and
\* PRReviewAgent.validate has valid=true iff its errors list is empty, and the
\* advisory findings (stale base content, missing target of a delete, deletion of
\* a test file, oversized content, major rewrite, console.log, TODO, empty links)
\* are entries of warnings and never of errors.
C17_ValidIffNoErrors ==
  ValidationReturned =>
    /\ scResult.valid <=> scResult.errors = <<>>
    /\ \A i \in 1 .. Len(scResult.errors) : ~IsAdvisory(scResult.errors[i])
    /\ scInput.fn = "validate" =>
         LET c == scInput.change
             type == IF "changeType" \in DOMAIN c THEN c.changeType ELSE ""
             target == FileAt(fs, join(c.filePath))
         IN /\ (type = "delete" /\ ~target.exists)
                 => Warned("File to delete does not exist: ")
            /\ (type = "delete" /\ IsTestFile(c.filePath))
                 => Warned("Deleting a test file - ensure this is intentional")
            /\ (/\ type = "modify"
                /\ HasContent(c, "originalContent")
                /\ target.exists
                /\ target.content # c.originalContent)
                 => Warned("File has been modified since original content was captured")
            /\ (/\ HasContent(c, "newContent")
                /\ SumWt(c.newContent, 1, Len(c.newContent)) > 100000)
                 => Warned("Large file change (>100KB) - consider breaking into smaller changes")
            /\ (/\ HasContent(c, "originalContent")
                /\ HasContent(c, "newContent")
                /\ MajorRewrite(c.originalContent, c.newContent))
                 => Warned("Major file rewrite detected (")

\* The delete of a test file that does not exist was found valid with two
\* warnings.
C17_Witness ==
  /\ ValidationReturned
  /\ scInput.fn = "validate"
  /\ "changeType" \in DOMAIN scInput.change
  /\ scInput.change.changeType = "delete"
  /\ IsTestFile(scInput.change.filePath)
  /\ ~FileAt(fs, join(scInput.change.filePath)).exists
  /\ scResult.valid
  /\ Len(scResult.warnings) >= 2

\* ChangeValidator.validate has returned a result for a change with a changeType.
ChangeValidated ==
  /\ scResult # Undefined
  /\ scInput.fn = "validate"
  /\ ~Threw(scResult)
  /\ "changeType" \in DOMAIN scInput.change

HasError(texts) ==
  \E i \in 1 .. Len(scResult.errors) : scResult.errors[i][1] \in texts

C19_EssentialConfigProtected ==
  (ChangeValidated /\ scInput.change.changeType = "delete"
     /\ join(scInput.change.filePath) \in {<<"package.json">>, <<"tsconfig.json">>})
    => /\ ~scResult.valid
       /\ HasError({"Cannot delete essential configuration files"})

\* C20: validate never throws; a change without filePath, without changeType
\* or with a changeType outside create, modify and delete gets a result whose
\* errors name the defect, with valid = FALSE.
C20_ValidateTotal ==
  (scResult # Undefined /\ scInput.fn = "validate")
    => /\ ~Threw(scResult)
       /\ (\/ "filePath" \notin DOMAIN scInput.change
           \/ "changeType" \notin DOMAIN scInput.change
           \/ scInput.change.changeType \notin ChangeTypes)
            => (~scResult.valid /\ scResult.errors # <<>>)

\* checkBrackets has returned a verdict for the content.
BracketsChecked ==
  /\ scResult # Undefined
  /\ scInput.fn = "checkBrackets"

\* The content has no quote, backslash or comment marker.
Plain(content) ==
  \A i \in 1 .. Len(content) : content[i] \notin {DQ, SQ, BT, BS, "/", "*"}

BracketsOf(content) == SelectSeq(content, LAMBDA c : c \in Opens \cup DOMAIN Pairs)

\* Proper nesting by the grammar N ::= empty | open N close N.
RECURSIVE Nested(_)
Nested(s) ==
  \/ s = <<>>
  \/ /\ s[1] \in Opens
     /\ \E k \in 2 .. Len(s) :
          /\ s[k] \in DOMAIN Pairs
          /\ Pairs[s[k]] = s[1]
          /\ Nested(SubSeq(s, 2, k - 1))
          /\ Nested(SubSeq(s, k + 1, Len(s)))

\* The opener at i and the closer at j enclose properly nested content.
Encloses(content, i, j) ==
  /\ i < j
  /\ content[i] \in Opens
  /\ content[j] \in DOMAIN Pairs
  /\ Pairs[content[j]] = content[i]
  /\ Nested(BracketsOf(SubSeq(content, i + 1, j - 1)))

FailingClosers(content) ==
  {j \in 1 .. Len(content) :
     /\ content[j] \in DOMAIN Pairs
     /\ ~\E i \in 1 .. j - 1 : Encloses(content, i, j)}

UnclosedOpeners(content) ==
  {i \in 1 .. Len(content) :
     /\ content[i] \in Opens
     /\ ~\E j \in i + 1 .. Len(content) : Encloses(content, i, j)}

LineOf(content, i) == 1 + Cardinality({k \in 1 .. i - 1 : content[k] = NL})

LastOf(S) == CHOOSE i \in S : \A j \in S : j <= i

\* C21: on content without string literals or comments checkBrackets is
\* valid iff the brackets are properly nested; otherwise it names the first
\* closer that has no matching opener on top of the stack with its 1-based
\* line, or, when no closer fails, the innermost unclosed opener and the line
\* where it was opened; 'function f() { return (1; }' fails at line 1.
C21_BracketsExact ==
  (BracketsChecked /\ Plain(scInput.content)) =>
    LET c == scInput.content
        F == FailingClosers(c)
        U == UnclosedOpeners(c)
    IN /\ scResult.valid <=> Nested(BracketsOf(c))
       /\ F # {} =>
            /\ ~scResult.valid
            /\ scResult.message = <<"Unmatched '", c[FirstOf(F)], "' at line ",
                                    ToString(LineOf(c, FirstOf(F)))>>
       /\ (F = {} /\ U # {}) =>
            /\ ~scResult.valid
            /\ scResult.message = <<"Unclosed '", c[LastOf(U)], "' from line ",
                                    ToString(LineOf(c, LastOf(U)))>>
       /\ Len(c) > MaxBracketLen + 2 =>
            (~scResult.valid /\ scResult.message[4] = "1")

\* A closer on line 2 met a non-matching opener on top of the stack.
C21_Witness ==
  /\ BracketsChecked
  /\ Plain(scInput.content)
  /\ ~scResult.valid
  /\ scResult.message[1] = "Unmatched '"
  /\ scResult.message[4] = "2"
  /\ \E i \in 1 .. Len(scInput.content) : scInput.content[i] \in Opens

\* The content with every string-literal body and every comment replaced by
\* spaces, newlines kept, as the language's lexer delimits them: a backslash
\* in a string escapes the next character, a line comment runs to the end of
\* the line, a block comment to the first */ after its opening.  mode is
\* "code", "line", "block" or the quote character of the open string.
RECURSIVE Blank(_, _, _)
Blank(content, i, mode) ==
  IF i > Len(content) THEN <<>>
  ELSE LET char == content[i]
           nextChar == IF i < Len(content) THEN content[i + 1] ELSE ""
           keep == IF char = NL THEN NL ELSE SP
           keepNext == IF nextChar = NL THEN NL ELSE SP
       IN CASE mode = "code" /\ char \in {DQ, SQ, BT} ->
                 <<char>> \o Blank(content, i + 1, char)
            [] mode = "code" /\ char = "/" /\ nextChar = "/" ->
                 <<SP, SP>> \o Blank(content, i + 2, "line")
            [] mode = "code" /\ char = "/" /\ nextChar = "*" ->
                 <<SP, SP>> \o Blank(content, i + 2, "block")
            [] mode = "line" /\ char = NL -> <<NL>> \o Blank(content, i + 1, "code")
            [] mode = "block" /\ char = "*" /\ nextChar = "/" ->
                 <<SP, SP>> \o Blank(content, i + 2, "code")
            [] mode \in {DQ, SQ, BT} /\ char = mode ->
                 <<char>> \o Blank(content, i + 1, "code")
            [] mode \in {DQ, SQ, BT} /\ char = BS /\ i < Len(content) ->
                 <<SP, keepNext>> \o Blank(content, i + 2, mode)
            [] OTHER ->
                 (IF mode = "code" THEN <<char>> ELSE <<keep>>)
                   \o Blank(content, i + 1, mode)

\* C22: brackets inside string literals, line comments and block comments
\* never affect the check: checkBrackets(content) equals checkBrackets of the
\* content with string bodies and comments blanked out.
C22_LiteralsIgnored ==
  BracketsChecked =>
    scResult = checkBrackets(Blank(scInput.content, 1, "code"))

\* C23: when originalContent and newContent are both present (non-empty),
\* validate adds the 'Major file rewrite' warning iff
\* (|M \ O| + |O \ M|) / (2 * max(line counts)) > 0.8, with O and M the sets
\* of trimmed lines; the ratio lies in [0, 1], is 0 for identical contents and
\* is symmetric in the two versions; the finding is never an error.
C23_ChangeRatio ==
  (scResult # Undefined /\ scInput.fn = "validate" /\ ~Threw(scResult)
     /\ HasContent(scInput.change, "originalContent")
     /\ HasContent(scInput.change, "newContent")) =>
    LET o == scInput.change.originalContent
        m == scInput.change.newContent
        Lines(t) == 1 + Cardinality({i \in 1 .. Len(t) : t[i] = NL})
        num == Cardinality(LineSet(m) \ LineSet(o)) + Cardinality(LineSet(o) \ LineSet(m))
        den == 2 * (IF Lines(o) >= Lines(m) THEN Lines(o) ELSE Lines(m))
    IN /\ Warned("Major file rewrite detected (") <=> (num * 10 > den * 8)
       /\ changedLines(o, m) = num
       /\ 2 * totalLines(o, m) = den
       /\ 0 <= num /\ num <= den
       /\ (o = m) => num = 0
       /\ changedLines(m, o) = num /\ totalLines(m, o) = totalLines(o, m)
       /\ ~HasError({"Major file rewrite detected ("})

\* A rewrite of nine tenths of the lines was reported as a warning on a valid
\* result.
C23_Witness ==
  /\ scResult # Undefined /\ scInput.fn = "validate" /\ ~Threw(scResult)
  /\ HasContent(scInput.change, "originalContent")
  /\ HasContent(scInput.change, "newContent")
  /\ Warned("Major file rewrite detected (")
  /\ Warned("90")
  /\ scResult.valid

\* execute of agent a has returned its success result.
Succeeded(a) ==
  /\ agent = a
  /\ agentResult # Undefined
  /\ agentResult.success
  /\ "data" \in DOMAIN agentResult

\* The log holds a getIssue record of issue n whose title and body match a
\* harmful-intent pattern of validateIssueForAutoFix.
HarmfulIssue(n) ==
  \E k \in 1 .. Len(toolCalls) :
     /\ toolCalls[k].name = "getIssue"
     /\ "issue" \in DOMAIN toolCalls[k].result
     /\ toolCalls[k].result.issue.number = n
     /\ LET verdict == validateIssueForAutoFix(toolCalls[k].result.issue.title,
                                               toolCalls[k].result.issue.body)
        IN ~verdict.safe /\ verdict.reason[1] = "Potentially harmful request detected: "

\* C24: BugFixAgent.execute never reports an issue whose title or body matches
\* a harmful-intent pattern with status 'fixed', whatever tool calls the model
\* made, a successful createPullRequest after getIssue included.
C24_HarmfulIssueNeverFixed ==
  Succeeded("BugFixAgent") =>
    \A i \in 1 .. Len(agentResult.data.issuesProcessed) :
       LET entry == agentResult.data.issuesProcessed[i]
       IN HarmfulIssue(entry.issueNumber) => entry.status \in {"skipped", "rejected", "failed"}

\* C26: an AgentResult has validated=true only if every change in its
\* proposedChanges passes validateChanges (checkChange and
\* ChangeValidator.validate); a result holding an unsafe or invalid change has
\* validated=false.
C26_ValidatedMeansChecked ==
  (agentResult # Undefined /\ agentResult.validated) =>
    /\ "proposedChanges" \in DOMAIN agentResult
    /\ ~Threw(validateChanges(agentResult.proposedChanges, fs))
    /\ validateChanges(agentResult.proposedChanges, fs).valid

\* The events of the createReview records of the log.
ReviewEvents ==
  {toolCalls[k].args.event : k \in {j \in 1 .. Len(toolCalls) :
                                      toolCalls[j].name = "createReview"}}

\* C28: the approval PRReviewAgent reports agrees with the submitted review: a
\* recorded createReview with event REQUEST_CHANGES gives 'request_changes',
\* and 'approve' is reported only if an APPROVE review was recorded or no
\* review requesting changes was, whatever the final text holds.
C28_ApprovalFollowsReview ==
  Succeeded("PRReviewAgent") =>
    /\ "REQUEST_CHANGES" \in ReviewEvents
         => agentResult.data.approval = "request_changes"
    /\ agentResult.data.approval = "approve"
         => ("APPROVE" \in ReviewEvents \/ "REQUEST_CHANGES" \notin ReviewEvents)

\* The records of tool name in the log, and those that returned success.
RecordsOf(name) == SelectSeq(toolCalls, LAMBDA c : c.name = name)
Successes(name) == SelectSeq(RecordsOf(name), LAMBDA c : Flag(c.result, "success"))

\* C29: in every BugFixAgentOutput issuesFixed equals the number of pull
\* requests created and the number of issuesProcessed entries with status
\* 'fixed', issuesFixed + issuesSkipped equals the number of entries, and a
\* denied or failed createPullRequest never counts as a fix.
C29_FixCountsAgree ==
  Succeeded("BugFixAgent") =>
    LET d == agentResult.data
    IN /\ d.issuesFixed = Len(d.pullRequestsCreated)
       /\ d.issuesFixed = Count(d.issuesProcessed, LAMBDA i : i.status = "fixed")
       /\ d.issuesFixed + d.issuesSkipped = Len(d.issuesProcessed)
       /\ d.issuesFixed <= Len(Successes("createPullRequest"))

\* The output of SecurityAgent says that the tests pass.
SaysTestsPass ==
  \/ \E i \in 1 .. Len(agentResult.data.recommendations) :
        agentResult.data.recommendations[i][Len(agentResult.data.recommendations[i])]
          = " update(s) applied successfully and tests pass."
  \/ \E i \in 1 .. Len(agentResult.data.summary) :
        agentResult.data.summary[i] = <<"All tests pass after updates.">>

\* C30: SecurityAgent says that the tests pass only if the log holds a runTests
\* record and every runTests record has success=true, and updatesApplied lists
\* only the npmAuditFix and npmUpdate calls that returned success, never a
\* denied call.
C30_TestsPassMeansTestsRan ==
  Succeeded("SecurityAgent") =>
    /\ SaysTestsPass
         => (RecordsOf("runTests") # <<>>
             /\ Successes("runTests") = RecordsOf("runTests"))
    /\ Len(agentResult.data.updatesApplied)
         = Len(Successes("npmAuditFix")) + Len(Successes("npmUpdate"))

\* The names getFilteredTools lists under config.
Listed(config) ==
  {getFilteredTools(config)[i] : i \in 1 .. Len(getFilteredTools(config))}

\* C25: for every filter configuration a tool is listed by getFilteredTools iff
\* isToolEnabled is true for it, i.e. iff its category is enabled (or no
\* category is named) and its name is not disabled; handleTool throws
\* 'Tool "<name>" is disabled' without reaching a category handler for every
\* known tool that is not listed, and 'Unknown tool' for a name in no category.
C25_FilterAgreesWithDispatch ==
  /\ (scResult # Undefined /\ scInput.fn = "getFilteredTools") =>
       \A i \in 1 .. Len(allTools) :
          LET t == allTools[i]
              config == scInput.config
              category == CHOOSE c \in DOMAIN toolsByCategory :
                            \E k \in 1 .. Len(toolsByCategory[c]) : toolsByCategory[c][k] = t
          IN /\ (\E k \in 1 .. Len(scResult.tools) : scResult.tools[k] = t)
                  <=> isToolEnabled(t, config)
             /\ isToolEnabled(t, config)
                  <=> /\ config.enabledCategories = {} \/ category \in config.enabledCategories
                      /\ t \notin config.disabledTools
  /\ (scResult # Undefined /\ scInput.fn = "handleTool") =>
       LET t == scInput.toolName
           known == \E i \in 1 .. Len(allTools) : allTools[i] = t
       IN /\ (known /\ t \notin Listed(scInput.config)) =>
               /\ Threw(scResult)
               /\ scResult.error = <<"Tool \"", t, "\" is disabled">>
          /\ (known /\ t \in Listed(scInput.config)) => ~Threw(scResult)
          /\ ~known => (Threw(scResult) /\ scResult.error[1] = "Unknown tool")

\* C27: for a scoped-token client created without cloudId any number of
\* concurrent requests trigger at most one tenant_info fetch and no API URL is
\* built while cloudId is null: a request proceeds after the fetch has set
\* cloudId or fails with the fetch's error; a classic-token client, or one
\* given a cloudId, never fetches tenant info.
C27_SingleTenantFetch ==
  client # Undefined =>
    /\ (client.config.tokenType = "scoped" /\ client.config.cloudId = "null") =>
         /\ client.fetches <= 1
         /\ \A i \in 1 .. MaxRequests :
              /\ client.reqs[i].pc \in {"sent", "done"} =>
                   /\ client.initPromise = "fulfilled"
                   /\ client.reqs[i].url[2] = "c2"
              /\ client.reqs[i].pc = "failed" => client.initPromise = "rejected"
    /\ (client.config.tokenType = "scoped" /\ client.config.cloudId # "null") =>
         \A i \in 1 .. MaxRequests :
            client.reqs[i].pc \in {"sent", "done"} =>
              client.reqs[i].url[2] = client.config.cloudId
    /\ (client.config.tokenType = "classic" \/ client.config.cloudId # "null") =>
         client.fetches = 0

\* Two requests of a scoped-token client without cloudId were sent after one
\* fetch, one of them issued while the fetch was pending.
C27_Witness ==
  /\ client # Undefined
  /\ client.config.tokenType = "scoped"
  /\ client.config.cloudId = "null"
  /\ client.fetches = 1
  /\ \E i, j \in 1 .. MaxRequests :
        /\ i # j
        /\ client.reqs[i].pc \in {"sent", "done"}
        /\ client.reqs[j].pc \in {"sent", "done"}
        /\ client.reqs[j].joined
====
